---------------------------- MODULE Spec2Model ----------------------------
(***************************************************************************)
(* A model of jvm-pybind: the import-hook finder's lazy runtime start-up,  *)
(* the runtime handle (class cache, graceful shutdown), the JNI helper's   *)
(* call wrappers and argument marshaling, and the package proxy.           *)
(***************************************************************************)
EXTENDS Integers, Sequences, FiniteSets, TLC

VARIABLES
    finder_jvm,     \* JavaFinder._jvm: 0 is None, n > 0 the n-th JVM object created
    jvm_lock,       \* JavaFinder._jvm_lock: 0 is free, else the thread holding it
    fpc,            \* position of each thread inside JavaFinder._get_jvm
    fret,           \* what _get_jvm returned to each thread (0: nothing yet)
    fsaw_none,      \* history: the thread's unlocked check saw _jvm is None
    starts          \* history: number of JVMLoader.start calls that returned a JVM

VARIABLES
    platform,       \* platform.system() and platform.machine() of the host
    exc_pending,    \* the JNI environment has an exception pending
    call_args,      \* the argument tuple a host caller is putting together
    jni_call        \* history: the last JNIHelper call, its native calls and outcome

VARIABLES
    class_cache,        \* JVM._class_cache: class name -> global reference (0: no entry)
    shutdown_complete,  \* JVM._shutdown_complete
    halted,             \* Runtime.halt(0) has ended the process
    next_ref,           \* the next reference the runtime hands out
    global_refs,        \* global references created and not deleted
    released,           \* history: references DeleteGlobalRef was called on
    wk                  \* each host thread's call in progress on the JVM handle

finderVars == <<finder_jvm, jvm_lock, fpc, fret, fsaw_none, starts>>
jniVars == <<platform, exc_pending, call_args, jni_call>>
jvmVars == <<class_cache, shutdown_complete, halted, next_ref, global_refs, released, wk>>

VARIABLES
    attr_call,          \* the last attribute access or call on a ClassProxy, ObjectProxy or method proxy
    conv_call,          \* the last to_java, to_python or _build_sig call
    disc_call,          \* the last discover_package_classes call
    refl_call,          \* the last _extract_all_methods or _extract_all_fields call
    lazy                \* a ClassProxy or ObjectProxy, its loaded fields and its last access

reflVars == <<refl_call, lazy>>
pxVars == <<attr_call, conv_call, disc_call, reflVars>>
vars == <<finderVars, jniVars, jvmVars, pxVars>>

-----------------------------------------------------------------------------
(* Bounds *)
NumFinderThreads == 3
MaxStarts == 2
MaxRefs == 2

FinderThreads == 1..NumFinderThreads

-----------------------------------------------------------------------------
(* import_hook/finder.py: JavaFinder *)

\* JavaFinder.__init__
FinderInit ==
    /\ finder_jvm = 0
    /\ jvm_lock = 0
    /\ fpc = [t \in FinderThreads |-> "idle"]
    /\ fret = [t \in FinderThreads |-> 0]
    /\ fsaw_none = [t \in FinderThreads |-> FALSE]
    /\ starts = 0

\* a thread enters _get_jvm
GetJvmCall(t) ==
    /\ fpc[t] \in {"idle", "done", "raised"}
    /\ fpc' = [fpc EXCEPT ![t] = "check"]
    /\ fret' = [fret EXCEPT ![t] = 0]
    /\ fsaw_none' = [fsaw_none EXCEPT ![t] = FALSE]
    /\ UNCHANGED <<finder_jvm, jvm_lock, starts>>
    /\ UNCHANGED <<jniVars, jvmVars, pxVars>>

\* line 25: if self._jvm is None (no lock held)
GetJvmCheck(t) ==
    /\ fpc[t] = "check"
    /\ fpc' = [fpc EXCEPT ![t] = IF finder_jvm = 0 THEN "acquire" ELSE "return"]
    /\ fsaw_none' = [fsaw_none EXCEPT ![t] = (finder_jvm = 0)]
    /\ UNCHANGED <<finder_jvm, jvm_lock, fret, starts>>
    /\ UNCHANGED <<jniVars, jvmVars, pxVars>>

\* line 26: with self._jvm_lock (blocks while another thread holds the lock)
GetJvmAcquire(t) ==
    /\ fpc[t] = "acquire"
    /\ jvm_lock = 0
    /\ jvm_lock' = t
    /\ fpc' = [fpc EXCEPT ![t] = "recheck"]
    /\ UNCHANGED <<finder_jvm, fret, fsaw_none, starts>>
    /\ UNCHANGED <<jniVars, jvmVars, pxVars>>

RecheckSkipped(j) == TRUE

\* line 27: the second test, made with the lock held
RecheckUnderLock(j) == j = 0

GetJvmRecheck(t) ==
    /\ fpc[t] = "recheck"
    /\ fpc' = [fpc EXCEPT ![t] = IF RecheckUnderLock(finder_jvm) THEN "start" ELSE "release"]
    /\ UNCHANGED <<finder_jvm, jvm_lock, fret, fsaw_none, starts>>
    /\ UNCHANGED <<jniVars, jvmVars, pxVars>>

\* lines 29-30, loader.py 19-86: Config.from_pyproject() and JVMLoader.start()
\* return a new JVM object, which is stored in self._jvm
GetJvmStartOk(t) ==
    /\ fpc[t] = "start"
    /\ starts < MaxStarts
    /\ starts' = starts + 1
    /\ finder_jvm' = starts + 1
    /\ fpc' = [fpc EXCEPT ![t] = "release"]
    /\ UNCHANGED <<jvm_lock, fret, fsaw_none>>
    /\ UNCHANGED <<jniVars, jvmVars, pxVars>>

\* loader.py 83-84, 140-142: start raises (library not found, JNI_CreateJavaVM
\* returned nonzero); nothing is assigned and the exception leaves the with block
GetJvmStartFails(t) ==
    /\ fpc[t] = "start"
    /\ fpc' = [fpc EXCEPT ![t] = "unwind"]
    /\ UNCHANGED <<finder_jvm, jvm_lock, fret, fsaw_none, starts>>
    /\ UNCHANGED <<jniVars, jvmVars, pxVars>>

\* the with statement's exit: the lock is released on the normal path
GetJvmRelease(t) ==
    /\ fpc[t] = "release"
    /\ jvm_lock' = 0
    /\ fpc' = [fpc EXCEPT ![t] = "return"]
    /\ UNCHANGED <<finder_jvm, fret, fsaw_none, starts>>
    /\ UNCHANGED <<jniVars, jvmVars, pxVars>>

LockKeptOnError(lock) == lock

\* finder.py 26: the with statement releases the lock when an exception leaves it
LockAfterError(lock) == 0

\* the with statement's exit on the exception path; the error reaches the caller
GetJvmUnwind(t) ==
    /\ fpc[t] = "unwind"
    /\ jvm_lock' = LockAfterError(jvm_lock)
    /\ fpc' = [fpc EXCEPT ![t] = "raised"]
    /\ UNCHANGED <<finder_jvm, fret, fsaw_none, starts>>
    /\ UNCHANGED <<jniVars, jvmVars, pxVars>>

\* line 33: return self._jvm
GetJvmReturn(t) ==
    /\ fpc[t] = "return"
    /\ fret' = [fret EXCEPT ![t] = finder_jvm]
    /\ fpc' = [fpc EXCEPT ![t] = "done"]
    /\ UNCHANGED <<finder_jvm, jvm_lock, fsaw_none, starts>>
    /\ UNCHANGED <<jniVars, jvmVars, pxVars>>

NextFinder ==
    \E t \in FinderThreads :
        \/ GetJvmCall(t)
        \/ GetJvmCheck(t)
        \/ GetJvmAcquire(t)
        \/ GetJvmRecheck(t)
        \/ GetJvmStartOk(t)
        \/ GetJvmStartFails(t)
        \/ GetJvmRelease(t)
        \/ GetJvmUnwind(t)
        \/ GetJvmReturn(t)

-----------------------------------------------------------------------------
(* jni.py: host values and argument marshaling *)

\* Host integers are unbounded; a value is held as hi * 2^16 + lo with
\* 0 <= lo < 2^16, so that the signed 32-bit range is -2^15 <= hi < 2^15.
Limb == 2^16
HostValue(k, hi, lo) == [k |-> k, hi |-> hi, lo |-> lo]

\* the host values the marshaling routine is tried on: both booleans; integers
\* at, inside and outside the 32-bit limits; a float; None; a ctypes c_void_p
\* object; any other host object (a str, a list, a proxy)
HostValues ==
    { HostValue("bool", 0, 0), HostValue("bool", 0, 1),
      HostValue("int", 0, 7),
      HostValue("int", 32767, Limb - 1), HostValue("int", 32768, 0),
      HostValue("int", -32768, 0), HostValue("int", -32769, Limb - 1),
      HostValue("float", 16384, 0),
      HostValue("None", 0, 0),
      HostValue("c_void_p", 2, 4096),
      HostValue("object", 0, 1) }

MaxArgs == 2

\* start addresses ctypes may hand out for a new array
AllocAddrs == { 4096, 4100 }

Platforms == { "Darwin-arm64", "other" }

\* jni.py 53, 68, 620: platform.system() == "Darwin" and platform.machine() == "arm64"
IsArm64Darwin(p) == p = "Darwin-arm64"

\* isinstance(arg, bool)
IsInstanceBool(v) == v.k = "bool"
\* isinstance(arg, int): a host boolean is an integer too
IsInstanceInt(v) == v.k \in {"int", "bool"}
\* isinstance(arg, float)
IsInstanceFloat(v) == v.k = "float"
\* hasattr(arg, "value")
HasValueAttr(v) == v.k = "c_void_p"

\* jni.py 82: -(2**31) <= arg <= 2**31 - 1
InInt32(v) == -32768 <= v.hi /\ v.hi <= 32767

\* jni.py 77: ctypes.memset(byref(cell), 0, sizeof(jvalue))
ZeroCell == [member |-> "none", hi |-> 0, lo |-> 0]
\* an assignment to one member of the zeroed union
SetMember(m, hi, lo) == [ZeroCell EXCEPT !.member = m, !.hi = hi, !.lo = lo]

\* jni.py 92: jobject(arg) accepts None and raises TypeError for a host object
\* that is no integer (integers were taken by the earlier branches)
JobjectAccepts(v) == v.k = "None"

ConvertOneIntFirst(v) ==
    IF IsInstanceInt(v) THEN
        IF InInt32(v) THEN SetMember("i", v.hi, v.lo) ELSE SetMember("j", v.hi, v.lo)
    ELSE IF IsInstanceBool(v) THEN SetMember("z", 0, v.lo)
    ELSE IF IsInstanceFloat(v) THEN SetMember("d", v.hi, v.lo)
    ELSE SetMember("l", v.hi, v.lo)

\* jni.py 77-92: one cell of the array
ConvertOne(v) ==
    IF IsInstanceBool(v) THEN SetMember("z", 0, v.lo)
    ELSE IF IsInstanceInt(v) THEN
        IF InInt32(v) THEN SetMember("i", v.hi, v.lo) ELSE SetMember("j", v.hi, v.lo)
    ELSE IF IsInstanceFloat(v) THEN SetMember("d", v.hi, v.lo)
    ELSE IF IsInstanceInt(v) \/ HasValueAttr(v) THEN SetMember("l", v.hi, v.lo)
    ELSE SetMember("l", 0, 0)

\* jni.py 92: the argument makes jobject(arg) raise TypeError
ConvertRaises(v) ==
    /\ ~IsInstanceBool(v) /\ ~IsInstanceInt(v) /\ ~IsInstanceFloat(v)
    /\ ~(IsInstanceInt(v) \/ HasValueAttr(v))
    /\ ~JobjectAccepts(v)

\* jni.py 65-74: the array kept, given the addresses of the first allocation
\* and of the second one made when the first is misaligned on ARM64 macOS
ArrayAddr(p, a1, a2) ==
    IF IsArm64Darwin(p) /\ a1 % 8 # 0
    THEN IF a2 % 8 = 0 THEN a2 ELSE a1
    ELSE a1

NoArray == [raised |-> "", null |-> TRUE, len |-> 0, cells |-> <<>>, addr |-> -1]

\* jni.py 60-94: _convert_args_to_jvalue_array
ConvertArgs(p, args, a1, a2) ==
    IF args = <<>> THEN NoArray
    ELSE IF \E i \in 1..Len(args) : ConvertRaises(args[i])
    THEN [NoArray EXCEPT !.raised = "TypeError"]
    ELSE [raised |-> "", null |-> FALSE, len |-> Len(args),
          cells |-> [i \in 1..Len(args) |-> ConvertOne(args[i])],
          addr |-> ArrayAddr(p, a1, a2)]

-----------------------------------------------------------------------------
(* jni.py: JNIHelper call wrappers *)

\* the wrappers that take no argument array
SimpleWrappers ==
    { "FindClass", "GetObjectClass", "GetMethodID", "GetStaticMethodID",
      "GetFieldID", "GetStaticFieldID", "GetStaticObjectField", "NewObject",
      "NewStringUTF", "GetStringUTFChars", "CallObjectMethod",
      "CallBooleanMethod", "CallIntMethod" }

\* the wrappers whose body calls self._check_exception() after the native call
\* (jni.py 474, 506, 530, 552, 732, 745, 790, 810)
ChecksException(fn) ==
    fn \in { "FindClass", "GetObjectClass", "GetMethodID", "GetStaticFieldID",
             "GetStaticObjectField", "NewStringUTF", "GetStringUTFChars",
             "CallObjectMethod" }

\* the wrappers that raise ValueError for a NULL argument before the native
\* call (jni.py 500, 524, 726, 737-740)
GuardsNull(fn) ==
    fn \in { "GetObjectClass", "GetMethodID", "GetStaticFieldID", "GetStaticObjectField" }

\* jni.py 448-453: _check_exception, given whether an exception is pending
CheckException(pending) ==
    IF pending
    THEN [natives |-> <<"ExceptionCheck", "ExceptionDescribe", "ExceptionClear">>,
          pending |-> FALSE, raised |-> "RuntimeError"]
    ELSE [natives |-> <<"ExceptionCheck">>, pending |-> FALSE, raised |-> ""]

NoCheck(pending) == [natives |-> <<>>, pending |-> pending, raised |-> ""]

JniCall(fn, args, raised, natives, marsh, invoked) ==
    [fn |-> fn, args |-> args, raised |-> raised, natives |-> natives,
     marsh |-> marsh, invoked |-> invoked]

JNIInit ==
    /\ platform \in Platforms
    /\ exc_pending = FALSE
    /\ call_args = <<>>
    /\ jni_call = JniCall("none", <<>>, "", <<>>, NoArray, "none")

NoCall == JniCall("none", <<>>, "", <<>>, NoArray, "none")

\* the host caller adds one more argument to the call it is about to make
JNIArg(v) ==
    /\ Len(call_args) < MaxArgs
    /\ call_args' = Append(call_args, v)
    /\ jni_call' = NoCall
    /\ UNCHANGED <<platform, exc_pending, finderVars, jvmVars, pxVars>>

\* a wrapper without argument array: the native call, which may leave an
\* exception pending, then the wrapper's check if it has one
JNISimpleCall(fn, throws, nullarg) ==
    /\ call_args = <<>>
    /\ IF GuardsNull(fn) /\ nullarg
       THEN /\ jni_call' = JniCall(fn, <<>>, "ValueError", <<>>, NoArray, "none")
            /\ UNCHANGED exc_pending
       ELSE LET after == exc_pending \/ throws
                chk == IF ChecksException(fn) THEN CheckException(after)
                       ELSE NoCheck(after)
            IN  /\ jni_call' = JniCall(fn, <<>>, chk.raised, <<fn>> \o chk.natives,
                                       NoArray, "none")
                /\ exc_pending' = chk.pending
    /\ UNCHANGED <<platform, call_args, finderVars, jvmVars, pxVars>>

\* _convert_args_to_jvalue_array called on its own
JNIConvertArgs(a1, a2) ==
    LET m == ConvertArgs(platform, call_args, a1, a2)
    IN  /\ jni_call' = JniCall("_convert_args_to_jvalue_array", call_args, m.raised,
                               <<>>, m, "none")
        /\ call_args' = <<>>
        /\ UNCHANGED <<platform, exc_pending, finderVars, jvmVars, pxVars>>

\* a native method invocation fn with the array m, an exception check after it
InvokeChecked(fn, wrapper, args, m, throws) ==
    LET chk == CheckException(exc_pending \/ throws)
    IN  /\ jni_call' = JniCall(wrapper, args, chk.raised, <<fn>> \o chk.natives, m, fn)
        /\ exc_pending' = chk.pending

\* jni.py 533-557: CallObjectMethod with arguments, through CallObjectMethodA
JNICallObjectMethod(a1, a2, throws) ==
    /\ call_args # <<>>
    /\ LET m == ConvertArgs(platform, call_args, a1, a2)
       IN  IF m.raised # ""
           THEN /\ jni_call' = JniCall("CallObjectMethod", call_args, m.raised, <<>>, m, "none")
                /\ UNCHANGED exc_pending
           ELSE InvokeChecked("CallObjectMethodA", "CallObjectMethod", call_args, m, throws)
    /\ call_args' = <<>>
    /\ UNCHANGED <<platform, finderVars, jvmVars, pxVars>>

\* jni.py 573-597: CallVoidMethod
JNICallVoidMethod(a1, a2, throws, nullarg) ==
    /\ IF nullarg
       THEN /\ jni_call' = JniCall("CallVoidMethod", call_args, "ValueError", <<>>,
                                   NoArray, "none")
            /\ UNCHANGED exc_pending
       ELSE IF call_args = <<>>
       THEN InvokeChecked("CallVoidMethod", "CallVoidMethod", call_args, NoArray, throws)
       ELSE LET m == ConvertArgs(platform, call_args, a1, a2)
            IN  IF m.raised # ""
                THEN /\ jni_call' = JniCall("CallVoidMethod", call_args, m.raised, <<>>,
                                            m, "none")
                     /\ UNCHANGED exc_pending
                ELSE InvokeChecked("CallVoidMethodA", "CallVoidMethod", call_args, m, throws)
    /\ call_args' = <<>>
    /\ UNCHANGED <<platform, finderVars, jvmVars, pxVars>>

\* jni.py 620-626: the refusal of a misaligned array
MisalignedRefused(p, m) == ~m.null /\ IsArm64Darwin(p) /\ m.addr % 8 # 0

\* jni.py 606-632: CallStaticObjectMethodA, given an array made by the
\* marshaling routine (or None)
JNICallStaticObjectMethodA(a1, a2, throws) ==
    /\ LET m == ConvertArgs(platform, call_args, a1, a2)
       IN  /\ m.raised = ""
           /\ IF MisalignedRefused(platform, m)
              THEN /\ jni_call' = JniCall("CallStaticObjectMethodA", call_args,
                                          "RuntimeError", <<>>, m, "none")
                   /\ UNCHANGED exc_pending
              ELSE InvokeChecked("CallStaticObjectMethodA", "CallStaticObjectMethodA",
                                 call_args, m, throws)
    /\ call_args' = <<>>
    /\ UNCHANGED <<platform, finderVars, jvmVars, pxVars>>

\* jni.py 686-700: CallStaticVoidMethodA
JNICallStaticVoidMethodA(a1, a2, throws) ==
    /\ LET m == ConvertArgs(platform, call_args, a1, a2)
       IN  /\ m.raised = ""
           /\ InvokeChecked("CallStaticVoidMethodA", "CallStaticVoidMethodA",
                            call_args, m, throws)
    /\ call_args' = <<>>
    /\ UNCHANGED <<platform, finderVars, jvmVars, pxVars>>

NextJNI ==
    \/ \E v \in HostValues : JNIArg(v)
    \/ \E fn \in SimpleWrappers, throws \in BOOLEAN, nullarg \in BOOLEAN :
           JNISimpleCall(fn, throws, nullarg)
    \/ \E a1 \in AllocAddrs, a2 \in AllocAddrs :
           \/ JNIConvertArgs(a1, a2)
           \/ \E throws \in BOOLEAN :
                  \/ JNICallObjectMethod(a1, a2, throws)
                  \/ JNICallStaticObjectMethodA(a1, a2, throws)
                  \/ JNICallStaticVoidMethodA(a1, a2, throws)
                  \/ \E nullarg \in BOOLEAN : JNICallVoidMethod(a1, a2, throws, nullarg)

-----------------------------------------------------------------------------
(* jvm.py: the JVM handle; proxy.py: PackageProxy *)

Workers == { "w1", "w2" }

\* strings are sequences of one-character strings
Replace(s, from, to) == [i \in 1..Len(s) |-> IF s[i] = from THEN to ELSE s[i]]

PackageNames == { <<"a">>, <<"a", ".", "b">> }
Items == { <<"b">> }

\* proxy.py 17: fqcn = f"{self._pkg}.{item}"
Fqcn(pkg, item) == pkg \o <<".">> \o item

\* proxy.py 19: fqcn.replace(".", "/")
SlashName(fqcn) == Replace(fqcn, ".", "/")

ClassNames == { SlashName(Fqcn(p, i)) : p \in PackageNames, i \in Items }

\* the runtime hands out local references 1..MaxRefs, each once; the global
\* reference NewGlobalRef makes of local reference r is a handle of its own
GlobalOf(r) == MaxRefs + r

NoResult == [kind |-> "none", ref |-> 0, name |-> <<>>, frame |-> -1]
RefResult(r) == [kind |-> "ref", ref |-> r, name |-> <<>>, frame |-> -1]
\* jvm.py 557: JavaClass(name=class_name, ...)
JavaClassResult(n) == [kind |-> "JavaClass", ref |-> 0, name |-> n, frame |-> -1]
\* proxy.py 20, 31-35: ClassProxy(self._jvm, fqcn)
ClassProxy(fqcn) == [kind |-> "ClassProxy", ref |-> 0, name |-> fqcn, frame |-> -1]
\* proxy.py 22, 12-14: PackageProxy(self._jvm, fqcn)
PackageProxy(pkg) == [kind |-> "PackageProxy", ref |-> 0, name |-> pkg, frame |-> -1]

\* history of the _find_class call a thread made just before the current one,
\* kept when the current call asks for the same name: the reference returned,
\* whether it was the cache's, the cache size at its return
NoPrev == [ref |-> 0, cached |-> FALSE, size |-> 0]

NoSnap == [n \in ClassNames |-> 0]

Idle ==
    [op |-> "none", pc |-> "idle", name |-> <<>>, pkg |-> <<>>, item |-> <<>>,
     jclass |-> 0, gref |-> 0, ret |-> NoResult, err |-> "", exc |-> "",
     depth |-> 0, todo |-> {}, isize |-> 0, args |-> <<>>, outer |-> "",
     native |-> NoResult,
     \* history of the call
     called |-> FALSE, lookup |-> "none", how |-> "", size |-> 0, late |-> FALSE,
     caught |-> "",
     \* history across two consecutive _find_class calls for one name
     again |-> FALSE, prev |-> NoPrev, since |-> "n/a", between |-> "n/a",
     \* history of a running shutdown, up to its halt sequence: the cache when
     \* it began, the references it called DeleteGlobalRef on, and whether
     \* another thread changed the cache meanwhile
     snap |-> NoSnap, dels |-> <<>>, interfered |-> FALSE]

\* JVM.__init__, jvm.py 65-70
JVMInit ==
    /\ class_cache = [n \in ClassNames |-> 0]
    /\ shutdown_complete = FALSE
    /\ halted = FALSE
    /\ next_ref = 1
    /\ global_refs = {}
    /\ released = {}
    /\ wk = [w \in Workers |-> Idle]

CachedNames(cache) == { n \in ClassNames : cache[n] # 0 }
CacheSize(cache) == Cardinality(CachedNames(cache))

CanCall(w) == ~halted /\ wk[w].pc \in {"idle", "done"}
At(w, pc) == ~halted /\ wk[w].pc = pc

Fresh(op, pc) == [Idle EXCEPT !.op = op, !.pc = pc]

\* a call of _find_class(n), possibly inside find_class or an attribute access;
\* r is the thread's finished call
FreshFind(r, op, n) ==
    LET again == /\ op = "_find_class" /\ r.op = "_find_class"
                 /\ r.pc = "done" /\ r.err = "" /\ r.name = n
    IN  [Fresh(op, "fc_check") EXCEPT
            !.name = n, !.again = again,
            !.prev = IF again THEN [ref |-> r.ret.ref,
                                    cached |-> r.how \in {"hit", "stored"},
                                    size |-> r.size]
                     ELSE NoPrev,
            !.between = IF again THEN r.since ELSE "n/a"]

Worse(a, b) ==
    IF a = "n/a" THEN a
    ELSE IF "shutdown" \in {a, b} THEN "shutdown"
    ELSE IF "stored" \in {a, b} THEN "stored" ELSE "quiet"

\* the threads' histories after w stored into the cache (what = "stored") or a
\* shutdown began, released or dropped entries (what = "shutdown"); r is w's
\* own new state
Disturbed(w, r, what) ==
    [v \in Workers |->
        IF v = w /\ what = "stored" THEN r
        ELSE [(IF v = w THEN r ELSE wk[v]) EXCEPT !.since = Worse(@, what),
                                                  !.between = Worse(@, what)]]

\* the shutdown calls that are between their flag test and their halt sequence
\* see the change this step makes to the cache as another thread's
Interfered(w, ws, cache) ==
    [v \in Workers |->
        IF v # w /\ cache # class_cache /\ ws[v].pc \in {"gs_iter", "gs_clear", "gs_push"}
        THEN [ws[v] EXCEPT !.interfered = TRUE]
        ELSE ws[v]]

\* the host calls jvm._find_class(n)
StartFindClass(w, n) ==
    /\ CanCall(w)
    /\ wk' = [wk EXCEPT ![w] = FreshFind(@, "_find_class", n)]
    /\ UNCHANGED <<class_cache, shutdown_complete, halted, next_ref, global_refs, released>>
    /\ UNCHANGED <<finderVars, jniVars, pxVars>>

\* the host calls jvm.find_class(n), jvm.py 533-536
StartPublicFindClass(w, n) ==
    /\ CanCall(w)
    /\ wk' = [wk EXCEPT ![w] = FreshFind(@, "find_class", n)]
    /\ UNCHANGED <<class_cache, shutdown_complete, halted, next_ref, global_refs, released>>
    /\ UNCHANGED <<finderVars, jniVars, pxVars>>

\* attribute access item on PackageProxy(pkg), proxy.py 16-19
StartGetattr(w, pkg, item) ==
    /\ CanCall(w)
    /\ wk' = [wk EXCEPT ![w] =
                [FreshFind(@, "__getattr__", SlashName(Fqcn(pkg, item)))
                    EXCEPT !.pkg = pkg, !.item = item]]
    /\ UNCHANGED <<class_cache, shutdown_complete, halted, next_ref, global_refs, released>>
    /\ UNCHANGED <<finderVars, jniVars, pxVars>>

PackageGetattrResultSamePackage(pkg, item, found) ==
    IF found THEN ClassProxy(Fqcn(pkg, item)) ELSE PackageProxy(pkg)

\* proxy.py 18-22: what the access returns, given whether find_class returned
PackageGetattrResult(pkg, item, found) ==
    IF found THEN ClassProxy(Fqcn(pkg, item)) ELSE PackageProxy(Fqcn(pkg, item))

\* _find_class returns ref (jvm.py 134, 145, 150) to its caller
FindReturns(r, ref, how, cache) ==
    LET e == [r EXCEPT !.how = how, !.jclass = 0, !.gref = 0]
    IN  IF r.op = "_find_class"
        THEN [e EXCEPT !.pc = "done", !.ret = RefResult(ref),
                       !.size = CacheSize(cache),
                       \* a local reference is returned while another thread's
                       \* entry for the name is in the cache
                       !.since = IF how = "local" /\ cache[r.name] # 0
                                 THEN "stored" ELSE "quiet"]
        ELSE [e EXCEPT !.pc = "reflect", !.jclass = ref]

\* _find_class raises kind: it reaches the caller of _find_class and of
\* find_class (jvm.py 536 is outside the try), and proxy.py 21-22 turns it
\* into a PackageProxy
FindRaises(r, kind) ==
    LET e == [r EXCEPT !.how = "raised", !.jclass = 0, !.gref = 0]
    IN  IF r.op = "__getattr__"
        THEN [e EXCEPT !.pc = "done", !.caught = kind,
                       !.ret = PackageGetattrResult(r.pkg, r.item, FALSE)]
        ELSE [e EXCEPT !.pc = "done", !.err = kind]

CacheHitNever(cache, n) == FALSE

\* jvm.py 132: class_name in self._class_cache
CacheHit(cache, n) == cache[n] # 0

FCCheck(w) ==
    /\ At(w, "fc_check")
    /\ wk' = [wk EXCEPT ![w].pc =
                IF CacheHit(class_cache, wk[w].name) THEN "fc_read" ELSE "fc_lookup"]
    /\ UNCHANGED <<class_cache, shutdown_complete, halted, next_ref, global_refs, released>>
    /\ UNCHANGED <<finderVars, jniVars, pxVars>>

\* jvm.py 134: return self._class_cache[class_name]; the entry may have been
\* dropped by a shutdown since the test of line 132 (KeyError)
FCRead(w) ==
    /\ At(w, "fc_read")
    /\ wk' = [wk EXCEPT ![w] =
                IF class_cache[@.name] # 0
                THEN FindReturns(@, class_cache[@.name], "hit", class_cache)
                ELSE FindRaises(@, "KeyError")]
    /\ UNCHANGED <<class_cache, shutdown_complete, halted, next_ref, global_refs, released>>
    /\ UNCHANGED <<finderVars, jniVars, pxVars>>

WrapLookupErrorUnwrapped(kind) == kind

\* jvm.py 152-153: except Exception as e: raise JNIException(...)
WrapLookupError(kind) == "JNIException"

\* jvm.py 137-139: jni.FindClass returns a local reference, returns NULL
\* (JNIException raised at 139) or raises RuntimeError for a pending exception
FCLookup(w, outcome) ==
    /\ At(w, "fc_lookup")
    /\ LET r == [wk[w] EXCEPT !.called = TRUE, !.lookup = outcome]
       IN  IF outcome = "ok"
           THEN /\ next_ref <= MaxRefs
                /\ next_ref' = next_ref + 1
                /\ wk' = [wk EXCEPT ![w] = [r EXCEPT !.jclass = next_ref,
                                                     !.pc = "fc_promote"]]
           ELSE /\ UNCHANGED next_ref
                /\ wk' = [wk EXCEPT ![w] =
                            FindRaises(r, WrapLookupError(
                                IF outcome = "null" THEN "JNIException" ELSE "RuntimeError"))]
    /\ UNCHANGED <<class_cache, shutdown_complete, halted, global_refs, released>>
    /\ UNCHANGED <<finderVars, jniVars, pxVars>>

PromotionFailedRaises(r, cache) == FindRaises(r, "JNIException")

\* jvm.py 146-150: the else branch, return jclass
PromotionFailed(r, cache) == FindReturns(r, r.jclass, "local", cache)

\* jvm.py 141-150: jni.NewGlobalRef(jclass); on NULL the local reference is
\* returned and nothing is cached
FCPromote(w, ok) ==
    /\ At(w, "fc_promote")
    /\ LET r == [wk[w] EXCEPT !.called = TRUE]
       IN  IF ok
           THEN /\ global_refs' = global_refs \cup {GlobalOf(r.jclass)}
                /\ wk' = [wk EXCEPT ![w] = [r EXCEPT !.gref = GlobalOf(r.jclass),
                                                     !.pc = "fc_store"]]
           ELSE /\ UNCHANGED global_refs
                /\ wk' = [wk EXCEPT ![w] = PromotionFailed(r, class_cache)]
    /\ UNCHANGED <<class_cache, shutdown_complete, halted, next_ref, released>>
    /\ UNCHANGED <<finderVars, jniVars, pxVars>>

StoredNothing(cache, name, gref) == cache

\* jvm.py 144: self._class_cache[class_name] = global_ref, one dict store
Stored(cache, name, gref) == [cache EXCEPT ![name] = gref]

\* jvm.py 143-145: self._class_cache[class_name] = global_ref; return global_ref
FCStore(w) ==
    /\ At(w, "fc_store")
    /\ class_cache' = Stored(class_cache, wk[w].name, wk[w].gref)
    /\ wk' = Interfered(w, Disturbed(w, FindReturns(wk[w], wk[w].gref, "stored",
                                                    class_cache'), "stored"),
                        class_cache')
    /\ UNCHANGED <<shutdown_complete, halted, next_ref, global_refs, released>>
    /\ UNCHANGED <<finderVars, jniVars, pxVars>>

\* jvm.py 538-557: find_class reflects on the class reference; every failure of
\* the extraction is swallowed, the cache is not touched. proxy.py 20: the
\* access returns a ClassProxy
FCReflect(w) ==
    /\ At(w, "reflect")
    /\ LET r == wk[w]
       IN  wk' = [wk EXCEPT ![w] =
                    [r EXCEPT !.pc = "done", !.jclass = 0,
                              !.ret = IF r.op = "find_class" THEN JavaClassResult(r.name)
                                      ELSE PackageGetattrResult(r.pkg, r.item, TRUE)]]
    /\ UNCHANGED <<class_cache, shutdown_complete, halted, next_ref, global_refs, released>>
    /\ UNCHANGED <<finderVars, jniVars, pxVars>>

FindSteps(w) ==
    \/ FCCheck(w)
    \/ FCRead(w)
    \/ \E outcome \in {"ok", "null", "exc"} : FCLookup(w, outcome)
    \/ \E ok \in BOOLEAN : FCPromote(w, ok)
    \/ FCStore(w)
    \/ FCReflect(w)

(* jni.py: local frames and CallStaticObjectMethod *)

\* a local reference to object obj living in the thread's frame number frame
LocalRef(obj, frame) == [kind |-> "local", ref |-> obj, name |-> <<>>, frame |-> frame]
NullRef == [kind |-> "null", ref |-> 0, name |-> <<>>, frame |-> -1]

\* JNI PopLocalFrame(result), jni.py 953-958: the frame is dropped and result
\* comes back as a reference of the frame below; NULL stays NULL
PopYield(result, depth) ==
    IF result.ref = 0 THEN NullRef ELSE LocalRef(result.ref, depth - 1)

AfterPushAlwaysEntered(rc, entered, skipped) == entered

\* jni.py 639-640 and jvm.py 98: the guarded block is entered only when
\* PushLocalFrame returned 0
AfterPush(rc, entered, skipped) == IF rc = 0 THEN entered ELSE skipped

\* the argument tuples CallStaticObjectMethod is called with
CallArgs ==
    { <<>>, <<HostValue("int", 0, 7)>>, <<HostValue("str", 0, 1)>>,
      <<HostValue("object", 0, 1)>> }

\* the host calls jni.CallStaticObjectMethod(clazz, method_id, *args)
StartCallStatic(w, args) ==
    /\ CanCall(w)
    /\ wk' = [wk EXCEPT ![w] = [Fresh("CallStaticObjectMethod", "cs_push")
                                    EXCEPT !.args = args]]
    /\ UNCHANGED <<class_cache, shutdown_complete, halted, next_ref, global_refs, released>>
    /\ UNCHANGED <<finderVars, jniVars, pxVars>>

\* CallStaticObjectMethod returns result or raises exc, to the host or to
\* graceful_shutdown (jvm.py 106-109: a NULL instance skips the halt)
CallStaticEnds(r, result, exc) ==
    IF r.outer = "graceful_shutdown"
    THEN [r EXCEPT !.outer = "", !.native = NoResult, !.exc = exc,
                   !.pc = IF exc = "" /\ result.ref # 0 THEN "gs_getmethod" ELSE "gs_pop"]
    ELSE [r EXCEPT !.pc = "done", !.ret = result, !.err = exc, !.exc = ""]

\* jni.py 638-640: PushLocalFrame(max(10, 2 * len(args))); a failure raises
\* before the try statement is entered
CSPush(w, rc) ==
    /\ At(w, "cs_push")
    /\ LET r == [wk[w] EXCEPT !.called = TRUE,
                              !.depth = IF rc = 0 THEN @ + 1 ELSE @]
       IN  wk' = [wk EXCEPT ![w] =
                    AfterPush(rc, [r EXCEPT !.pc = "cs_convert"],
                                  CallStaticEnds(r, NullRef, "RuntimeError"))]
    /\ UNCHANGED <<class_cache, shutdown_complete, halted, next_ref, global_refs, released>>
    /\ UNCHANGED <<finderVars, jniVars, pxVars>>

HasStr(args) == \E i \in 1..Len(args) : args[i].k = "str"

\* jni.py 644, 656-667: every str argument becomes a java.lang.String handle;
\* NewStringUTF may raise or return NULL (RuntimeError at 663)
CSConvert(w, ok) ==
    /\ At(w, "cs_convert")
    /\ ok \/ HasStr(wk[w].args)
    /\ LET r == wk[w]
           jni_args == [i \in 1..Len(r.args) |->
                           IF r.args[i].k = "str" THEN HostValue("int", 0, 4096)
                           ELSE r.args[i]]
       IN  wk' = [wk EXCEPT ![w] =
                    IF ok THEN [r EXCEPT !.args = jni_args, !.pc = "cs_call",
                                         !.called = @ \/ HasStr(r.args)]
                    ELSE [r EXCEPT !.exc = "RuntimeError", !.pc = "cs_pop",
                                   !.called = TRUE]]
    /\ UNCHANGED <<class_cache, shutdown_complete, halted, next_ref, global_refs, released>>
    /\ UNCHANGED <<finderVars, jniVars, pxVars>>

\* jni.py 646-649, 668-684, 606-632: the native call, through the jvalue array
\* when there are arguments; outcome is what the native method does
CSCall(w, a1, a2, outcome) ==
    /\ At(w, "cs_call")
    /\ LET r == wk[w]
           m == ConvertArgs(platform, r.args, a1, a2)
           refused == r.args # <<>> /\ (m.raised # "" \/ MisalignedRefused(platform, m))
           exc == IF r.args # <<>> /\ m.raised # "" THEN m.raised
                  ELSE IF refused \/ outcome = "exc" THEN "RuntimeError" ELSE ""
           result == IF exc = "" /\ outcome = "object" THEN LocalRef(1, r.depth) ELSE NullRef
       IN  /\ refused => outcome = "null" /\ a2 = a1
           /\ r.args = <<>> => a1 = a2
           /\ wk' = [wk EXCEPT ![w] =
                        [r EXCEPT !.pc = "cs_pop", !.exc = exc, !.native = result,
                                  !.called = @ \/ ~refused]]
    /\ UNCHANGED <<class_cache, shutdown_complete, halted, next_ref, global_refs, released>>
    /\ UNCHANGED <<finderVars, jniVars, pxVars>>

\* jni.py 651-654: finally: result = self.PopLocalFrame(result); return result
CSPop(w) ==
    /\ At(w, "cs_pop")
    /\ LET r == [wk[w] EXCEPT !.called = TRUE, !.depth = @ - 1]
       IN  wk' = [wk EXCEPT ![w] =
                    CallStaticEnds(r, PopYield(wk[w].native, wk[w].depth), r.exc)]
    /\ UNCHANGED <<class_cache, shutdown_complete, halted, next_ref, global_refs, released>>
    /\ UNCHANGED <<finderVars, jniVars, pxVars>>

CallStaticSteps(w) ==
    \/ \E rc \in {0, -1} : CSPush(w, rc)
    \/ \E ok \in BOOLEAN : CSConvert(w, ok)
    \/ \E a1, a2 \in AllocAddrs, outcome \in {"object", "null", "exc"} :
            CSCall(w, a1, a2, outcome)
    \/ CSPop(w)

(* jvm.py: graceful_shutdown *)

\* the host calls jvm.graceful_shutdown()
StartShutdown(w) ==
    /\ CanCall(w)
    /\ wk' = [wk EXCEPT ![w] = Fresh("graceful_shutdown", "gs_check")]
    /\ UNCHANGED <<class_cache, shutdown_complete, halted, next_ref, global_refs, released>>
    /\ UNCHANGED <<finderVars, jniVars, pxVars>>

AlreadyCompleteIgnored(flag) == FALSE

\* jvm.py 74: if self._shutdown_complete: return
AlreadyComplete(flag) == flag

FlagAfterFailureKept(flag) == flag

\* jvm.py 128: the handler sets self._shutdown_complete = True
FlagAfterFailure(flag) == TRUE

\* jvm.py 74-84: the flag test; then len() and the iterator over the cache
GSCheck(w) ==
    /\ At(w, "gs_check")
    /\ IF AlreadyComplete(shutdown_complete)
       THEN wk' = [wk EXCEPT ![w] = [@ EXCEPT !.pc = "done", !.late = TRUE]]
       ELSE wk' = Disturbed(w, [wk[w] EXCEPT !.pc = "gs_iter",
                                             !.todo = CachedNames(class_cache),
                                             !.snap = class_cache,
                                             !.isize = CacheSize(class_cache)],
                            "shutdown")
    /\ UNCHANGED <<class_cache, shutdown_complete, halted, next_ref, global_refs, released>>
    /\ UNCHANGED <<finderVars, jniVars, pxVars>>

\* jvm.py 84-94: one turn of the loop over self._class_cache.items(). The
\* dictionary iterator raises RuntimeError when the size changed since it was
\* made; DeleteGlobalRef may raise, which the loop body swallows
GSIter(w, n, ok) ==
    /\ At(w, "gs_iter")
    /\ LET r == wk[w]
           left == r.todo \cap CachedNames(class_cache)
       IN  IF CacheSize(class_cache) # r.isize
           THEN /\ ok /\ n = CHOOSE x \in ClassNames : TRUE
                /\ wk' = [wk EXCEPT ![w] = [r EXCEPT !.exc = "RuntimeError", !.todo = {},
                                                     !.isize = 0, !.pc = "gs_except"]]
                /\ UNCHANGED <<global_refs, released>>
           ELSE IF left = {}
           THEN /\ ok /\ n = CHOOSE x \in ClassNames : TRUE
                /\ wk' = [wk EXCEPT ![w] = [r EXCEPT !.todo = {}, !.isize = 0,
                                                     !.pc = "gs_clear"]]
                /\ UNCHANGED <<global_refs, released>>
           ELSE /\ n \in left
                /\ wk' = Disturbed(w, [r EXCEPT !.todo = left \ {n}, !.called = TRUE,
                                                 !.dels = Append(@, class_cache[n])],
                                   "shutdown")
                /\ released' = released \cup {class_cache[n]}
                /\ global_refs' = IF ok THEN global_refs \ {class_cache[n]} ELSE global_refs
    /\ UNCHANGED <<class_cache, shutdown_complete, halted, next_ref>>
    /\ UNCHANGED <<finderVars, jniVars, pxVars>>

ClearedNothing(cache) == cache

\* dict.clear()
Cleared(cache) == [n \in ClassNames |-> 0]

\* jvm.py 96: self._class_cache.clear()
GSClear(w) ==
    /\ At(w, "gs_clear")
    /\ class_cache' = Cleared(class_cache)
    /\ wk' = Interfered(w, Disturbed(w, [wk[w] EXCEPT !.pc = "gs_push"], "shutdown"),
                        class_cache')
    /\ UNCHANGED <<shutdown_complete, halted, next_ref, global_refs, released>>
    /\ UNCHANGED <<finderVars, jniVars, pxVars>>

\* jvm.py 98: if self.jni.PushLocalFrame(64) == 0:
GSPush(w, rc) ==
    /\ At(w, "gs_push")
    /\ LET r == [wk[w] EXCEPT !.called = TRUE,
                              !.depth = IF rc = 0 THEN @ + 1 ELSE @,
                              !.snap = NoSnap, !.dels = <<>>, !.interfered = FALSE]
       IN  wk' = [wk EXCEPT ![w] =
                    AfterPush(rc, [r EXCEPT !.pc = "gs_findclass"],
                                  [r EXCEPT !.pc = "gs_mark"])]
    /\ UNCHANGED <<class_cache, shutdown_complete, halted, next_ref, global_refs, released>>
    /\ UNCHANGED <<finderVars, jniVars, pxVars>>

\* one of the guarded look-ups of jvm.py 100-113: it yields a handle, yields
\* NULL (the rest of the block is skipped) or raises
Guarded(r, outcome, next) ==
    [r EXCEPT !.called = TRUE,
              !.exc = IF outcome = "exc" THEN "RuntimeError" ELSE "",
              !.pc = IF outcome = "ok" THEN next ELSE "gs_pop"]

\* jvm.py 100-101: runtime_class = self.jni.FindClass("java/lang/Runtime")
GSFindRuntime(w, outcome) ==
    /\ At(w, "gs_findclass")
    /\ wk' = [wk EXCEPT ![w] = Guarded(@, outcome, "gs_getstatic")]
    /\ UNCHANGED <<class_cache, shutdown_complete, halted, next_ref, global_refs, released>>
    /\ UNCHANGED <<finderVars, jniVars, pxVars>>

\* jvm.py 102-105: GetStaticMethodID(runtime_class, "getRuntime", ...); the
\* wrapper (jni.py 599-604) never raises. jvm.py 106: CallStaticObjectMethod
\* is entered with no arguments
GSGetStatic(w, outcome) ==
    /\ At(w, "gs_getstatic")
    /\ outcome \in {"ok", "null"}
    /\ wk' = [wk EXCEPT ![w] =
                [Guarded(@, outcome, "cs_push") EXCEPT
                    !.outer = IF outcome = "ok" THEN "graceful_shutdown" ELSE "",
                    !.args = <<>>]]
    /\ UNCHANGED <<class_cache, shutdown_complete, halted, next_ref, global_refs, released>>
    /\ UNCHANGED <<finderVars, jniVars, pxVars>>

\* jvm.py 110-113: halt_method = self.jni.GetMethodID(runtime_class, "halt", "(I)V")
GSGetMethod(w, outcome) ==
    /\ At(w, "gs_getmethod")
    /\ wk' = [wk EXCEPT ![w] = Guarded(@, outcome, "gs_halt")]
    /\ UNCHANGED <<class_cache, shutdown_complete, halted, next_ref, global_refs, released>>
    /\ UNCHANGED <<finderVars, jniVars, pxVars>>

\* jvm.py 117-119: CallVoidMethod(runtime_instance, halt_method, 0).
\* Runtime.halt(0) ends the process; the call may also raise or come back
GSHalt(w, outcome) ==
    /\ At(w, "gs_halt")
    /\ halted' = (outcome = "halts")
    /\ wk' = [wk EXCEPT ![w] =
                [@ EXCEPT !.called = TRUE,
                          !.exc = IF outcome = "exc" THEN "RuntimeError" ELSE "",
                          !.pc = IF outcome = "halts" THEN "gs_halt" ELSE "gs_pop"]]
    /\ UNCHANGED <<class_cache, shutdown_complete, next_ref, global_refs, released>>
    /\ UNCHANGED <<finderVars, jniVars, pxVars>>

\* jvm.py 120-121: finally: self.jni.PopLocalFrame(None); an exception of the
\* block goes on to the handler of line 126
GSPop(w) ==
    /\ At(w, "gs_pop")
    /\ wk' = [wk EXCEPT ![w] =
                [@ EXCEPT !.called = TRUE, !.depth = @ - 1,
                          !.pc = IF wk[w].exc = "" THEN "gs_mark" ELSE "gs_except"]]
    /\ UNCHANGED <<class_cache, shutdown_complete, halted, next_ref, global_refs, released>>
    /\ UNCHANGED <<finderVars, jniVars, pxVars>>

\* jvm.py 123: self._shutdown_complete = True
GSMark(w) ==
    /\ At(w, "gs_mark")
    /\ shutdown_complete' = TRUE
    /\ wk' = [wk EXCEPT ![w] = [@ EXCEPT !.pc = "done"]]
    /\ UNCHANGED <<class_cache, halted, next_ref, global_refs, released>>
    /\ UNCHANGED <<finderVars, jniVars, pxVars>>

\* jvm.py 126-128: except Exception: ...; self._shutdown_complete = True
GSExcept(w) ==
    /\ At(w, "gs_except")
    /\ shutdown_complete' = FlagAfterFailure(shutdown_complete)
    /\ wk' = [wk EXCEPT ![w] = [@ EXCEPT !.pc = "done", !.caught = wk[w].exc, !.exc = "",
                                          !.snap = NoSnap, !.dels = <<>>,
                                          !.interfered = FALSE]]
    /\ UNCHANGED <<class_cache, halted, next_ref, global_refs, released>>
    /\ UNCHANGED <<finderVars, jniVars, pxVars>>

ShutdownSteps(w) ==
    \/ GSCheck(w)
    \/ \E n \in ClassNames, ok \in BOOLEAN : GSIter(w, n, ok)
    \/ GSClear(w)
    \/ \E rc \in {0, -1} : GSPush(w, rc)
    \/ \E outcome \in {"ok", "null", "exc"} :
            GSFindRuntime(w, outcome) \/ GSGetStatic(w, outcome) \/ GSGetMethod(w, outcome)
    \/ \E outcome \in {"halts", "returns", "exc"} : GSHalt(w, outcome)
    \/ GSPop(w)
    \/ GSMark(w)
    \/ GSExcept(w)

\* jvm.py 130-153: threads that only call _find_class, nothing shuts down
NextFindClass ==
    \E w \in Workers :
        \/ \E n \in ClassNames : StartFindClass(w, n)
        \/ FCCheck(w)
        \/ FCRead(w)
        \/ \E outcome \in {"ok", "null", "exc"} : FCLookup(w, outcome)
        \/ \E ok \in BOOLEAN : FCPromote(w, ok)
        \/ FCStore(w)

NextJVM ==
    \E w \in Workers :
        \/ \E n \in ClassNames : StartFindClass(w, n) \/ StartPublicFindClass(w, n)
        \/ FindSteps(w)
        \/ StartShutdown(w)
        \/ ShutdownSteps(w)
        \/ CallStaticSteps(w)

NextFrames ==
    \E w \in Workers :
        \/ \E args \in CallArgs : StartCallStatic(w, args)
        \/ CallStaticSteps(w)
        \/ StartShutdown(w)
        \/ ShutdownSteps(w)

NextProxy ==
    \E w \in Workers :
        \/ \E pkg \in PackageNames, item \in Items : StartGetattr(w, pkg, item)
        \/ FindSteps(w)
        \/ StartShutdown(w)
        \/ ShutdownSteps(w)
        \/ CallStaticSteps(w)

-----------------------------------------------------------------------------
(* proxy.py and typeconv.py: class, object and method proxies, value conversion *)

\* the last call of _build_sig, to_java, to_python or of their composition:
\* its argument, what the runtime answered (env), the native handle in between
\* (java), the value returned (ret), the exception raised (err) and the native
\* calls made (log)
ConvCall(op, arg, env, java, ret, err, log) ==
    [op |-> op, arg |-> arg, env |-> env, java |-> java, ret |-> ret, err |-> err,
     log |-> log]
NoConvCall == ConvCall("none", <<>>, "ok", <<>>, <<>>, "", <<>>)

\* Java type names, as sequences of characters
TInt == <<"i", "n", "t">>
TLong == <<"l", "o", "n", "g">>
TFloat == <<"f", "l", "o", "a", "t">>
TDouble == <<"d", "o", "u", "b", "l", "e">>
TBoolean == <<"b", "o", "o", "l", "e", "a", "n">>
TVoid == <<"v", "o", "i", "d">>
TByte == <<"b", "y", "t", "e">>
TChar == <<"c", "h", "a", "r">>
TShort == <<"s", "h", "o", "r", "t">>
TString == <<"j", "a", "v", "a", ".", "l", "a", "n", "g", ".", "S", "t", "r", "i", "n", "g">>
TObject == <<"j", "a", "v", "a", ".", "l", "a", "n", "g", ".", "O", "b", "j", "e", "c", "t">>

\* proxy.py 197-207: PRIM
PRIM ==
    { <<TInt, "I">>,
      <<TLong, "J">>,
      <<TFloat, "F">>,
      <<TDouble, "D">>,
      <<TBoolean, "Z">>,
      <<TVoid, "V">>,
      <<TByte, "B">>,
      <<TChar, "C">>,
      <<TShort, "S">> }

PrimNames == { p[1] : p \in PRIM }
PrimCode(t) == (CHOOSE p \in PRIM : p[1] = t)[2]

JavaTypeToSigDotted(jtype) ==
    IF jtype \in PrimNames THEN <<PrimCode(jtype)>>
    ELSE <<"L">> \o jtype \o <<";">>

\* proxy.py 195-210: _java_type_to_sig
JavaTypeToSig(jtype) ==
    IF jtype \in PrimNames THEN <<PrimCode(jtype)>>
    ELSE <<"L">> \o Replace(jtype, ".", "/") \o <<";">>

RECURSIVE Join(_)
\* "".join(parts)
Join(parts) == IF parts = <<>> THEN <<>> ELSE Head(parts) \o Join(Tail(parts))

\* proxy.py 213-217: _build_sig
BuildSig(method) ==
    <<"(">> \o Join([i \in 1..Len(method.parameters) |-> JavaTypeToSig(method.parameters[i])])
           \o <<")">> \o JavaTypeToSig(method.return_type)

\* jvm.py 21-42: JavaMethod, JavaField
JavaMethod(name, parameters, return_type, is_static) ==
    [name |-> name, parameters |-> parameters, return_type |-> return_type,
     is_static |-> is_static]
JavaField(name, type, is_static) == [name |-> name, type |-> type, is_static |-> is_static]

\* the names of members looked up on a proxy
MemberNames == { "x", "y" }

MaxMembers == 2
MaxCallArgs == 1

FieldPool == { JavaField("y", TString, s) : s \in BOOLEAN }
MethodPool ==
    { JavaMethod("x", ps, rt, s) :
        ps \in {<<>>, <<TInt>>, <<TString>>}, rt \in {TVoid, TString}, s \in BOOLEAN }
    \cup { JavaMethod("y", <<>>, TVoid, TRUE) }

SeqsUpTo(S, n) == UNION { [1..k -> S] : k \in 0..n }

\* jvm.py 492-531: the fields of a descriptor have pairwise distinct names
FieldLists ==
    { fs \in SeqsUpTo(FieldPool, MaxMembers) :
        \A i, j \in 1..Len(fs) : i # j => fs[i].name # fs[j].name }

\* jvm.py 443-490: the methods of a descriptor have pairwise distinct
\* name(parameters) signatures
MethodLists ==
    { ms \in SeqsUpTo(MethodPool, MaxMembers) :
        \A i, j \in 1..Len(ms) :
            i # j => <<ms[i].name, ms[i].parameters>> # <<ms[j].name, ms[j].parameters>> }

\* jvm.py 45-51: JavaClass (the name plays no part in attribute access)
JavaClass(methods, fields) == [methods |-> methods, fields |-> fields]

\* the host arguments of a call, by host type
ArgKinds == { "int", "bool", "str" }
ArgLists == SeqsUpTo(ArgKinds, MaxCallArgs)

\* what an access or a call on a proxy gives back: nothing, None, a method
\* proxy bound to members, or to_python applied to a native handle
Res(kind, members, handle) == [kind |-> kind, members |-> members, handle |-> handle]
NoRes == Res("none", <<>>, "")

NoInfo == JavaClass(<<>>, <<>>)
NoMethod == JavaMethod("", <<>>, <<>>, FALSE)
\* the message of an error: its text, the number in it, and the method named
\* by a "Failed to call method ...: " prefix ("" without that prefix)
NoMsg == <<"", 0, "">>
NoEnv == [conv |-> "ok", mid |-> "ok", call |-> "ok"]
\* the static field could not be read
FieldEnv == [conv |-> "ok", mid |-> "ok", call |-> "exc"]

\* a proxy and the last access or call made through it: the proxy's class
\* (proxy) and descriptor (info), the operation, its inputs, what the runtime
\* answered (env), the overload selected (sel), the native calls made (log)
\* and the outcome
AttrCall(proxy, info, op, item, overloads, args, env, res, err, msg, sel, sig, log) ==
    [proxy |-> proxy, info |-> info, op |-> op, item |-> item, overloads |-> overloads,
     args |-> args, env |-> env, res |-> res, err |-> err, msg |-> msg, sel |-> sel,
     sig |-> sig, log |-> log]

NoAttrCall ==
    AttrCall("none", NoInfo, "none", "", <<>>, <<>>, NoEnv, NoRes, "", NoMsg, NoMethod,
             <<>>, <<>>)

\* a ClassProxy (proxy.py 31-47) or an ObjectProxy (proxy.py 78-105) whose
\* descriptor is info
NewProxy(proxy, info) ==
    /\ attr_call.proxy = "none"
    /\ attr_call' = [NoAttrCall EXCEPT !.proxy = proxy, !.info = info]
    /\ UNCHANGED <<conv_call, disc_call, reflVars>>
    /\ UNCHANGED <<finderVars, jniVars, jvmVars>>

\* an access on the proxy of attr_call
Access(op, item, env, res, err, log) ==
    [NoAttrCall EXCEPT !.proxy = attr_call.proxy, !.info = attr_call.info,
                       !.op = op, !.item = item, !.env = env, !.res = res, !.err = err,
                       !.log = log]

\* [m for m in methods if m.name == item], proxy.py 65 and 108
Named(methods, item) == SelectSeq(methods, LAMBDA m : m.name = item)

\* proxy.py 49-69: ClassProxy.__getattr__. The first field called item is read
\* as a static field; GetStaticFieldID finds it only when the field is static
\* (NoSuchFieldError otherwise) and the runtime answers (field_ok)
ClassGetattr(item, field_ok) ==
    /\ attr_call.proxy = "ClassProxy"
    /\ LET info == attr_call.info
           hits == { i \in 1..Len(info.fields) : info.fields[i].name = item }
           f == info.fields[CHOOSE i \in hits : \A j \in hits : i <= j]
           matches == Named(info.methods, item)
           op == "ClassProxy.__getattr__"
       IN  IF hits # {}
           THEN IF f.is_static /\ field_ok
                THEN attr_call' = Access(op, item, NoEnv, Res("to_python", <<>>, f.name), "",
                                         <<"GetStaticFieldID", "GetStaticObjectField">>)
                ELSE /\ ~f.is_static => field_ok
                     /\ attr_call' = Access(op, item, FieldEnv, NoRes, "RuntimeError",
                                            <<"GetStaticFieldID">>)
           ELSE /\ field_ok
                /\ attr_call' =
                    IF matches # <<>>
                    THEN Access(op, item, NoEnv, Res("MethodProxy", matches, ""), "", <<>>)
                    ELSE Access(op, item, NoEnv, NoRes, "AttributeError", <<>>)
    /\ UNCHANGED <<conv_call, disc_call, reflVars>>
    /\ UNCHANGED <<finderVars, jniVars, jvmVars>>

\* proxy.py 107-111: ObjectProxy.__getattr__ over the descriptor of the
\* object's runtime class
ObjectGetattr(item) ==
    /\ attr_call.proxy = "ObjectProxy"
    /\ LET matches == Named(attr_call.info.methods, item)
           op == "ObjectProxy.__getattr__"
       IN  attr_call' =
                IF matches # <<>>
                THEN Access(op, item, NoEnv, Res("InstanceMethodProxy", matches, ""), "", <<>>)
                ELSE Access(op, item, NoEnv, NoRes, "AttributeError", <<>>)
    /\ UNCHANGED <<conv_call, disc_call, reflVars>>
    /\ UNCHANGED <<finderVars, jniVars, jvmVars>>

\* what the runtime answers during a call: the conversion of the arguments
\* (conv), the method id lookup (mid) and the native call itself (call)
CallEnv(conv, mid, call) == [conv |-> conv, mid |-> mid, call |-> call]
CallEnvs ==
    { CallEnv("ok", "ok", "ok"), CallEnv("exc", "ok", "ok"), CallEnv("ok", "null", "ok"),
      CallEnv("ok", "ok", "exc") }

\* a call on the method proxy of attr_call
Call(op, args, env, res, err, msg, sel, sig, log) ==
    AttrCall(attr_call.proxy, attr_call.info, op, attr_call.item, attr_call.res.members,
             args, env, res, err, msg, sel, sig, log)

\* next((o for o in overloads if fits(o)), None): the index of the first
\* overload that fits, 0 when there is none
FirstFit(overloads, fits(_)) ==
    LET hits == { i \in 1..Len(overloads) : fits(overloads[i]) }
    IN  IF hits = {} THEN 0 ELSE CHOOSE i \in hits : \A j \in hits : i <= j

\* isinstance(arg, int) holds of a bool too; isinstance(arg, str)
IsInstance(kind, type) ==
    IF type = "int" THEN kind \in {"int", "bool"} ELSE kind = type

MatchesSignatureArityOnly(overload, args) == Len(overload.parameters) = Len(args)

\* proxy.py 171-179: matches_signature inside MethodProxy.__call__
MatchesSignature(overload, args) ==
    /\ Len(overload.parameters) = Len(args)
    /\ \A i \in 1..Len(args) :
            /\ overload.parameters[i] = TInt => IsInstance(args[i], "int")
            /\ overload.parameters[i] = TString => IsInstance(args[i], "str")

\* proxy.py 125-153: InstanceMethodProxy.__call__. Every exception raised
\* inside is raised again as RuntimeError("Failed to call method <name>: <e>"),
\* msg keeps the inner message
MethodNameAlwaysUnknown(k, cand) == "unknown"

\* proxy.py 152: method_name = cand.name if cand else "unknown"
MethodName(k, cand) == IF k # 0 THEN cand.name ELSE "unknown"

\* proxy.py 151-153: except Exception as e:
\*     raise RuntimeError(f"Failed to call method {method_name}: {e}")
FailedToCall(method_name, text, n) == <<text, n, method_name>>

InstanceCall(args, env) ==
    /\ attr_call.res.kind = "InstanceMethodProxy"
    /\ LET op == "InstanceMethodProxy.__call__"
           overloads == attr_call.res.members
           k == FirstFit(overloads, LAMBDA o : Len(o.parameters) = Len(args))
           cand == overloads[k]
           sig == BuildSig(cand)
       IN  /\ k = 0 /\ env.conv = "ok" => env = NoEnv
           /\ attr_call' =
            IF env.conv = "exc"
            THEN Call(op, args, env, NoRes, "RuntimeError",
                      FailedToCall(MethodName(0, cand), "JNIException", 0),
                      NoMethod, <<>>, <<>>)
            ELSE IF k = 0
            THEN Call(op, args, env, NoRes, "RuntimeError",
                      FailedToCall(MethodName(k, cand), "No matching method found", Len(args)),
                      NoMethod, <<>>, <<>>)
            ELSE IF env.mid = "null"
            THEN Call(op, args, env, NoRes, "RuntimeError",
                      FailedToCall(MethodName(k, cand), "MethodID resolve failed", 0),
                      cand, sig, <<"GetObjectClass", "GetMethodID">>)
            ELSE IF cand.return_type = TVoid
            THEN IF env.call = "exc"
                 THEN Call(op, args, env, NoRes, "RuntimeError",
                           FailedToCall(MethodName(k, cand), "JNIException", 0),
                           cand, sig, <<"GetObjectClass", "GetMethodID", "CallVoidMethod">>)
                 ELSE Call(op, args, env, Res("None", <<>>, ""), "", NoMsg,
                           cand, sig, <<"GetObjectClass", "GetMethodID", "CallVoidMethod">>)
            ELSE IF env.call = "exc"
                 THEN Call(op, args, env, NoRes, "RuntimeError",
                           FailedToCall(MethodName(k, cand), "JNIException", 0),
                           cand, sig, <<"GetObjectClass", "GetMethodID", "CallObjectMethod">>)
                 ELSE Call(op, args, env, Res("to_python", <<>>, "CallObjectMethod"), "",
                           NoMsg, cand, sig,
                           <<"GetObjectClass", "GetMethodID", "CallObjectMethod">>)
    /\ UNCHANGED <<conv_call, disc_call, reflVars>>
    /\ UNCHANGED <<finderVars, jniVars, jvmVars>>

\* proxy.py 168-188: MethodProxy.__call__. next() has no default, so no
\* fitting overload is StopIteration; the native call is the object-returning
\* one whatever the return type
StaticCall(args, env) ==
    /\ attr_call.res.kind = "MethodProxy"
    /\ LET op == "MethodProxy.__call__"
           overloads == attr_call.res.members
           k == FirstFit(overloads, LAMBDA o : MatchesSignature(o, args))
           cand == overloads[k]
           sig == BuildSig(cand)
       IN  /\ k = 0 /\ env.conv = "ok" => env = NoEnv
           /\ attr_call' =
            IF env.conv = "exc"
            THEN Call(op, args, env, NoRes, "JNIException", NoMsg, NoMethod, <<>>, <<>>)
            ELSE IF k = 0
            THEN Call(op, args, env, NoRes, "StopIteration", NoMsg, NoMethod, <<>>, <<>>)
            ELSE IF env.mid = "null"
            THEN Call(op, args, env, NoRes, "RuntimeError", <<"MethodID resolve failed", 0, "">>,
                      cand, sig, <<"GetStaticMethodID">>)
            ELSE IF env.call = "exc"
            THEN Call(op, args, env, NoRes, "JNIException", NoMsg, cand, sig,
                      <<"GetStaticMethodID", "CallStaticObjectMethod">>)
            ELSE Call(op, args, env, Res("to_python", <<>>, "CallStaticObjectMethod"), "",
                      NoMsg, cand, sig, <<"GetStaticMethodID", "CallStaticObjectMethod">>)
    /\ UNCHANGED <<conv_call, disc_call, reflVars>>
    /\ UNCHANGED <<finderVars, jniVars, jvmVars>>

NextAttr ==
    \/ \E proxy \in {"ClassProxy", "ObjectProxy"}, ms \in MethodLists, fs \in FieldLists :
            NewProxy(proxy, JavaClass(ms, fs))
    \/ \E item \in MemberNames :
            \/ \E field_ok \in BOOLEAN : ClassGetattr(item, field_ok)
            \/ ObjectGetattr(item)
    \/ \E args \in ArgLists, env \in CallEnvs :
            \/ StaticCall(args, env)
            \/ InstanceCall(args, env)

\* the type names _build_sig is applied to: the nine primitives and two classes
SigTypes == PrimNames \cup { TString, TObject }
MaxParams == 2
SigMethods ==
    { JavaMethod("m", ps, rt, FALSE) : ps \in SeqsUpTo(SigTypes, MaxParams), rt \in SigTypes }

\* proxy.py 213-217: one call of _build_sig(method)
BuildSigCall(method) ==
    /\ conv_call.op = "none"
    /\ conv_call' = ConvCall("_build_sig", method, "", <<>>, BuildSig(method), "", <<>>)
    /\ UNCHANGED <<attr_call, disc_call, reflVars>>
    /\ UNCHANGED <<finderVars, jniVars, jvmVars>>

NextSig == \E method \in SigMethods : BuildSigCall(method)

-----------------------------------------------------------------------------
(* typeconv.py: to_java and to_python; jni.py: the string wrappers *)

\* a host value: its type (k), a number in two limbs (hi, lo) for an int and a
\* bool, and its content as a sequence of numbers: the code points of a str,
\* the elements of a container
Py(k, hi, lo, chars) == [k |-> k, cls |-> "", hi |-> hi, lo |-> lo, chars |-> chars]
\* a non-null native handle to a Java object of class cls: the UTF-16 units of
\* a String, the value of a Boolean or an Integer
JRef(cls, hi, lo, units) ==
    [k |-> "jobject", cls |-> cls, hi |-> hi, lo |-> lo, chars |-> units]

PyNone == Py("None", 0, 0, <<>>)
PyStr(chars) == Py("str", 0, 0, chars)
PyBool(b) == Py("bool", 0, IF b THEN 1 ELSE 0, <<>>)
PyInt(hi, lo) == Py("int", hi, lo, <<>>)
PyObjectProxyBare(jobject) == jobject

\* typeconv.py 71-73: ObjectProxy(jvm, jobject), an object of its own that holds
\* the handle
PyObjectProxy(jobject) == [jobject EXCEPT !.k = "ObjectProxy"]

\* code points: NUL, 'A', e-acute, hiragana a, a lone high surrogate, an emoji
\* outside the basic plane
CodePoints == { 0, 65, 233, 12354, 55357, 128512 }
MaxStrLen == 2
HostStrings == { PyStr(s) : s \in SeqsUpTo(CodePoints, MaxStrLen) }
HostInts ==
    { PyInt(0, 0), PyInt(0, 1), PyInt(0, 7), PyInt(-1, Limb - 1),
      PyInt(32767, Limb - 1), PyInt(32768, 0), PyInt(-32768, 0), PyInt(-32769, Limb - 1) }
HostBools == { PyBool(TRUE), PyBool(FALSE) }
ContainerKinds == { "dict", "list", "tuple", "set" }
HostContainers == { Py(k, 0, 0, c) : k \in ContainerKinds, c \in { <<>>, <<7>> } }

IsSurrogate(cp) == cp \in 55296..57343

\* str.encode("utf-8") of one code point
Utf8(cp) ==
    IF cp < 128 THEN <<cp>>
    ELSE IF cp < 2048 THEN <<192 + (cp \div 64), 128 + (cp % 64)>>
    ELSE IF cp < 65536 THEN <<224 + (cp \div 4096), 128 + ((cp \div 64) % 64), 128 + (cp % 64)>>
    ELSE <<240 + (cp \div 262144), 128 + ((cp \div 4096) % 64), 128 + ((cp \div 64) % 64),
           128 + (cp % 64)>>

\* jni.py 789: utf_chars.encode("utf-8"), UnicodeEncodeError on a surrogate
StrEncode(chars) ==
    IF \E i \in 1..Len(chars) : IsSurrogate(chars[i])
    THEN [err |-> "UnicodeEncodeError", bytes |-> <<>>]
    ELSE [err |-> "", bytes |-> Join([i \in 1..Len(chars) |-> Utf8(chars[i])])]

\* a C string ends at its first zero byte (NewStringUTF's argument, and
\* ctypes.string_at at jni.py 817)
CString(bytes) ==
    LET zeros == { i \in 1..Len(bytes) : bytes[i] = 0 }
    IN  IF zeros = {} THEN bytes
        ELSE SubSeq(bytes, 1, (CHOOSE i \in zeros : \A j \in zeros : i <= j) - 1)

RECURSIVE ModifiedUtf8Decode(_, _)
\* NewStringUTF inside the runtime: modified UTF-8 to UTF-16 units. A four-byte
\* sequence is no modified UTF-8: a runtime either takes it for the surrogate
\* pair of the code point (lenient) or takes its bytes one by one as characters
ModifiedUtf8Decode(bytes, lenient) ==
    IF bytes = <<>> THEN <<>>
    ELSE LET b == bytes[1]
             from(n) == SubSeq(bytes, n, Len(bytes))
         IN  IF b \in 192..223
             THEN <<(b - 192) * 64 + (bytes[2] - 128)>> \o ModifiedUtf8Decode(from(3), lenient)
             ELSE IF b \in 224..239
             THEN <<(b - 224) * 4096 + (bytes[2] - 128) * 64 + (bytes[3] - 128)>>
                    \o ModifiedUtf8Decode(from(4), lenient)
             ELSE IF b >= 240 /\ lenient
             THEN LET cp == (b - 240) * 262144 + (bytes[2] - 128) * 4096
                                + (bytes[3] - 128) * 64 + (bytes[4] - 128) - 65536
                  IN  <<55296 + (cp \div 1024), 56320 + (cp % 1024)>>
                        \o ModifiedUtf8Decode(from(5), lenient)
             ELSE <<b>> \o ModifiedUtf8Decode(from(2), lenient)

\* GetStringUTFChars inside the runtime: one UTF-16 unit in modified UTF-8
\* (NUL takes two bytes, a surrogate three)
ModifiedUtf8(u) ==
    IF u # 0 /\ u < 128 THEN <<u>>
    ELSE IF u < 2048 THEN <<192 + (u \div 64), 128 + (u % 64)>>
    ELSE <<224 + (u \div 4096), 128 + ((u \div 64) % 64), 128 + (u % 64)>>

RECURSIVE Utf8Decode(_)
\* jni.py 818: result_bytes.decode("utf-8"), strict: overlong forms and
\* surrogates are UnicodeDecodeError
Utf8Decode(bytes) ==
    IF bytes = <<>> THEN [ok |-> TRUE, chars |-> <<>>]
    ELSE LET b == bytes[1]
             n == IF b < 128 THEN 1 ELSE IF b \in 194..223 THEN 2
                  ELSE IF b \in 224..239 THEN 3 ELSE IF b \in 240..244 THEN 4 ELSE 0
             cont(i) == bytes[i] - 128
             cp == IF n = 1 THEN b
                   ELSE IF n = 2 THEN (b - 192) * 64 + cont(2)
                   ELSE IF n = 3 THEN (b - 224) * 4096 + cont(2) * 64 + cont(3)
                   ELSE (b - 240) * 262144 + cont(2) * 4096 + cont(3) * 64 + cont(4)
             wellformed ==
                /\ n > 0 /\ Len(bytes) >= n
                /\ \A i \in 2..n : bytes[i] \in 128..191
                /\ ~IsSurrogate(cp)
                /\ n = 3 => cp >= 2048
                /\ n = 4 => cp \in 65536..1114111
             rest == Utf8Decode(SubSeq(bytes, n + 1, Len(bytes)))
         IN  IF wellformed /\ rest.ok
             THEN [ok |-> TRUE, chars |-> <<cp>> \o rest.chars]
             ELSE [ok |-> FALSE, chars |-> <<>>]

\* the low 16 bits of a limb, signed
Signed16(x) == LET m == x % Limb IN IF m >= 32768 THEN m - Limb ELSE m

\* Integer.valueOf(int) reads the i member of the cell: the low 32 bits of the
\* union when the j member was filled
ReadInt(cell) == [hi |-> Signed16(cell.hi), lo |-> cell.lo]

\* the outcome of to_java or to_python: the exception raised, the value
\* returned and the native calls made
Conv(err, ret, log) == [err |-> err, ret |-> ret, log |-> log]

\* typeconv.py 9-25: to_java. fails: the runtime raises in the last native call
ToJava(value, lenient, fails) ==
    IF value.k = "str"
    THEN LET enc == StrEncode(value.chars)
         IN  IF enc.err # "" THEN Conv(enc.err, PyNone, <<>>)
             ELSE IF fails THEN Conv("JNIException", PyNone, <<"NewStringUTF">>)
             ELSE Conv("", JRef("String", 0, 0,
                                ModifiedUtf8Decode(CString(enc.bytes), lenient)),
                       <<"NewStringUTF">>)
    ELSE IF IsInstanceBool(value)
    THEN LET log == <<"_find_class Boolean", "GetStaticMethodID valueOf",
                      "CallStaticObjectMethod">>
         IN  IF fails THEN Conv("JNIException", PyNone, log)
             ELSE Conv("", JRef("Boolean", 0, IF ConvertOne(value).lo # 0 THEN 1 ELSE 0, <<>>),
                       log)
    ELSE IF IsInstanceInt(value)
    THEN LET log == <<"_find_class Integer", "GetStaticMethodID valueOf",
                      "CallStaticObjectMethod">>
             n == ReadInt(ConvertOne(value))
         IN  IF fails THEN Conv("JNIException", PyNone, log)
             ELSE Conv("", JRef("Integer", n.hi, n.lo, <<>>), log)
    ELSE Conv("", value, <<>>)

\* "if not jobject": None, zero, False, an empty str or container
Falsy(v) ==
    \/ v.k = "None"
    \/ v.k \in {"int", "bool", "float"} /\ v.hi = 0 /\ v.lo = 0
    \/ v.k \in ContainerKinds \cup {"str"} /\ v.chars = <<>>

\* jni.py 800-821: GetStringUTFChars on a String handle; None when the runtime
\* gives no characters or the bytes are no UTF-8
GetStringUTFChars(jobject, env) ==
    LET dec == Utf8Decode(CString(Join([i \in 1..Len(jobject.chars) |->
                                            ModifiedUtf8(jobject.chars[i])])))
    IN  IF env = "no chars" \/ ~dec.ok THEN PyNone ELSE PyStr(dec.chars)

ToPythonEnvs == { "ok", "ArgumentError", "no chars", "JNIException" }

ChainToAll(cls) ==
    <<"GetObjectClass", "_find_class String", "IsInstanceOf String",
      "_find_class Boolean", "IsInstanceOf Boolean",
      "_find_class Integer", "IsInstanceOf Integer">>

\* the native calls of to_python up to the class test that matches
ChainTo(cls) ==
    <<"GetObjectClass", "_find_class String", "IsInstanceOf String">>
    \o IF cls = "String" THEN <<>>
       ELSE <<"_find_class Boolean", "IsInstanceOf Boolean">>
            \o IF cls = "Boolean" THEN <<>>
               ELSE <<"_find_class Integer", "IsInstanceOf Integer">>

\* typeconv.py 28-73: to_python. env: the runtime answers (ok), GetObjectClass
\* raises one of the exceptions caught at line 39 (ArgumentError), the string
\* has no characters to give (no chars), or the first lookup raises (JNIException)
ToPython(jobject, env) ==
    IF Falsy(jobject) THEN Conv("", PyNone, <<>>)
    ELSE IF jobject.k \in ContainerKinds THEN Conv("", jobject, <<>>)
    ELSE IF jobject.k # "jobject" THEN Conv("", jobject, <<"GetObjectClass">>)
    ELSE IF env = "ArgumentError" THEN Conv("", PyObjectProxy(jobject), <<"GetObjectClass">>)
    ELSE IF env = "JNIException"
    THEN Conv("JNIException", PyNone, <<"GetObjectClass", "_find_class String">>)
    ELSE IF jobject.cls = "String"
    THEN LET pystr == GetStringUTFChars(jobject, env)
         IN  Conv("", IF Falsy(pystr) THEN PyStr(<<>>) ELSE pystr,
                  ChainTo("String") \o <<"GetStringUTFChars">>)
    ELSE IF jobject.cls = "Boolean"
    THEN Conv("", PyBool(jobject.lo # 0),
              ChainTo("Boolean") \o <<"GetMethodID booleanValue", "CallBooleanMethod">>)
    ELSE IF jobject.cls = "Integer"
    THEN Conv("", PyInt(jobject.hi, jobject.lo),
              ChainTo("Integer") \o <<"GetMethodID intValue", "CallIntMethod">>)
    ELSE Conv("", PyObjectProxy(jobject), ChainTo("Object"))

\* the values to_java is applied to
HostScalars == HostStrings \cup HostBools \cup HostInts

\* the handles and host values to_python is applied to
JavaUnits == { 0, 65, 12354, 55357 }
Handles ==
    { JRef("String", 0, 0, u) : u \in SeqsUpTo(JavaUnits, MaxStrLen) }
    \cup { JRef("Boolean", 0, b, <<>>) : b \in {0, 1} }
    \cup { JRef("Integer", 0, 0, <<>>), JRef("Integer", -32768, 0, <<>>),
           JRef("Integer", 32767, Limb - 1, <<>>) }
    \cup { JRef("Object", 0, 0, <<>>) }
Jobjects ==
    Handles \cup HostContainers \cup { PyNone, PyInt(0, 0), Py("float", 16384, 0, <<>>) }

\* to_python(jvm, to_java(jvm, value))
RoundTrip(value, lenient, fails) ==
    /\ conv_call.op = "none"
    /\ lenient => \E i \in 1..Len(value.chars) : value.chars[i] >= 65536
    /\ LET j == ToJava(value, lenient, fails)
           p == ToPython(j.ret, "ok")
       IN  conv_call' =
             IF j.err # ""
             THEN ConvCall("to_python(to_java)", value, IF fails THEN "JNIException" ELSE "ok",
                           PyNone, PyNone, j.err, j.log)
             ELSE ConvCall("to_python(to_java)", value, "ok", j.ret, p.ret, p.err,
                           j.log \o p.log)
    /\ UNCHANGED <<attr_call, disc_call, reflVars>>
    /\ UNCHANGED <<finderVars, jniVars, jvmVars>>

\* to_python(jvm, jobject)
ToPythonCall(jobject, env) ==
    /\ conv_call.op = "none"
    /\ env # "ok" => jobject.k = "jobject"
    /\ env = "no chars" => jobject.cls = "String"
    /\ LET p == ToPython(jobject, env)
       IN  conv_call' = ConvCall("to_python", jobject, env, jobject, p.ret, p.err, p.log)
    /\ UNCHANGED <<attr_call, disc_call, reflVars>>
    /\ UNCHANGED <<finderVars, jniVars, jvmVars>>

NextConv ==
    \/ \E value \in HostScalars, lenient, fails \in BOOLEAN : RoundTrip(value, lenient, fails)
    \/ \E jobject \in Jobjects, env \in ToPythonEnvs : ToPythonCall(jobject, env)

-----------------------------------------------------------------------------
(* jvm.py: discover_package_classes *)

\* package names, as sequences of characters; the last one has no list of its own
JavaLang == <<"j", "a", "v", "a", ".", "l", "a", "n", "g">>
JavaUtil == <<"j", "a", "v", "a", ".", "u", "t", "i", "l">>
JavaIo == <<"j", "a", "v", "a", ".", "i", "o">>
OrgAcme == <<"o", "r", "g", ".", "a", "c", "m", "e">>
DiscoverPackages == { JavaLang, JavaUtil, JavaIo, OrgAcme }

\* the candidates tried per package
MaxCandidates == 3

\* jvm.py 978-1122: the curated class names of a package, here the first
\* MaxCandidates of each list
ClassPatterns(package_name) ==
    IF package_name = JavaLang THEN << <<"O", "b", "j", "e", "c", "t">>,
                                           <<"S", "t", "r", "i", "n", "g">>,
                                           <<"S", "y", "s", "t", "e", "m">> >>
    ELSE IF package_name = JavaUtil THEN << <<"L", "i", "s", "t">>,
                                                <<"A", "r", "r", "a", "y", "L", "i", "s", "t">>,
                                                <<"L", "i", "n", "k", "e", "d", "L", "i", "s", "t">> >>
    ELSE IF package_name = JavaIo THEN << <<"F", "i", "l", "e">>,
                                              <<"I", "n", "p", "u", "t", "S", "t", "r", "e", "a", "m">>,
                                              <<"O", "u", "t", "p", "u", "t", "S", "t", "r", "e", "a", "m">> >>
    ELSE << <<"O", "b", "j", "e", "c", "t">>,
            <<"E", "x", "c", "e", "p", "t", "i", "o", "n">>,
            <<"U", "t", "i", "l", "s">> >>

\* a result or an exception
Outcome(err, ret) == [err |-> err, ret |-> ret]
\* try: body / except Exception: fallback
TryExcept(body, fallback) == IF body.err # "" THEN Outcome("", fallback) ELSE body

\* what the runtime answers: whether the package is among the loaded ones
\* ("found", "absent") or a native call raises while they are listed
\* ("raises"), and per candidate whether Class.forName gives a class
\* ("loads"), gives null ("null") or raises ("raises")
ProbeOutcomes == { "loads", "null", "raises" }
VerifyOutcomes == { "found", "absent", "raises" }
DiscEnv(verify, probes) == [verify |-> verify, probes |-> probes]
NoProbes == [i \in 1..MaxCandidates |-> "null"]
DiscEnvs ==
    { DiscEnv("found", ps) : ps \in [1..MaxCandidates -> ProbeOutcomes] }
    \cup { DiscEnv(v, NoProbes) : v \in {"absent", "raises"} }

\* jvm.py 932-971: _verify_package_exists
VerifyPackageExists(env) ==
    TryExcept(IF env.verify = "raises" THEN Outcome("JNIException", FALSE)
              ELSE Outcome("", env.verify = "found"),
              FALSE)

\* jvm.py 1132-1157: _try_load_class_by_forname
TryLoadClassByForname(probe) ==
    TryExcept(IF probe = "raises" THEN Outcome("JNIException", FALSE)
              ELSE Outcome("", probe = "loads"),
              FALSE)

FullClassNameBare(package_name, class_name) == class_name

\* jvm.py 1126: f"{package_name}.{class_name}"
FullClassName(package_name, class_name) == package_name \o <<".">> \o class_name

RECURSIVE ProbeFrom(_, _, _)
\* jvm.py 1125-1128: the loop over the candidates from the i-th on
ProbeFrom(package_name, env, i) ==
    LET class_patterns == ClassPatterns(package_name)
    IN  IF i > Len(class_patterns) THEN Outcome("", <<>>)
        ELSE LET hit == TryLoadClassByForname(env.probes[i])
                 rest == ProbeFrom(package_name, env, i + 1)
             IN  IF hit.err # "" THEN Outcome(hit.err, <<>>)
                 ELSE IF rest.err # "" THEN rest
                 ELSE IF hit.ret
                 THEN Outcome("", <<FullClassName(package_name, class_patterns[i])>>
                                        \o rest.ret)
                 ELSE rest

\* jvm.py 973-1130: _discover_classes_with_forname_patterns
DiscoverWithFornamePatterns(package_name, env) == ProbeFrom(package_name, env, 1)

\* jvm.py 583-607: _discover_classes_via_class_forname
DiscoverViaClassForname(package_name, env) ==
    TryExcept(LET exists == VerifyPackageExists(env)
              IN  IF exists.err # "" THEN Outcome(exists.err, <<>>)
                  ELSE IF ~exists.ret THEN Outcome("", <<>>)
                  ELSE DiscoverWithFornamePatterns(package_name, env),
              <<>>)

\* the last call of discover_package_classes
DiscCall(op, package_name, env, ret, err) ==
    [op |-> op, package_name |-> package_name, env |-> env, ret |-> ret, err |-> err]
NoDiscCall == DiscCall("none", <<>>, DiscEnv("absent", NoProbes), <<>>, "")

\* jvm.py 559-581: discover_package_classes
DiscoverPackageClasses(package_name, env) ==
    /\ disc_call.op = "none"
    /\ LET found == TryExcept(DiscoverViaClassForname(package_name, env), <<>>)
       IN  disc_call' = DiscCall("discover_package_classes", package_name, env,
                                 found.ret, found.err)
    /\ UNCHANGED <<attr_call, conv_call, reflVars>>
    /\ UNCHANGED <<finderVars, jniVars, jvmVars>>

NextDiscover ==
    \E package_name \in DiscoverPackages, env \in DiscEnvs :
        DiscoverPackageClasses(package_name, env)

-----------------------------------------------------------------------------
(* jvm.py: the extraction of the methods and fields of a reflected class *)

UnknownMethod == <<"u", "n", "k", "n", "o", "w", "n", "_", "m", "e", "t", "h", "o", "d">>
UnknownField == <<"u", "n", "k", "n", "o", "w", "n", "_", "f", "i", "e", "l", "d">>
GetError == <<"g", "e", "t", "_", "e", "r", "r", "o", "r">>
Object == <<"O", "b", "j", "e", "c", "t">>

\* what can go wrong with one element of a reflected array:
\*   "null"     GetObjectArrayElement gives NULL
\*   "element"  GetObjectArrayElement raises
\*   "getName"  the getName call on the member raises
\*   "chars"    jni.GetStringUTFChars raises for the strings of the member
\*   "all"      every native call on the member raises
ReflectFails == { "none", "null", "element", "getName", "chars", "all" }

\* an element of the array a reflection call returns: the member as it is in
\* Java, and what goes wrong when it is read
Reflected(member, fail) == [member |-> member, fail |-> fail]

\* the array a reflection call returns; ok is FALSE when the call raises
Batch(ok, objs) == [ok |-> ok, objs |-> objs]

\* jvm.py 219-228: _get_string_utf_chars on a non-null string
GetStringUtfChars(jstring, fail) ==
    IF fail = "chars" THEN GetError ELSE jstring

\* jvm.py 261-273: _extract_method_name
ExtractMethodName(method_obj) ==
    IF method_obj.fail \in {"getName", "all"}
    THEN UnknownMethod
    ELSE GetStringUtfChars(method_obj.member.name, method_obj.fail)

\* jvm.py 275-292: _extract_method_return_type
ExtractMethodReturnType(method_obj) ==
    IF method_obj.fail = "all"
    THEN TVoid
    ELSE LET return_type == GetStringUtfChars(method_obj.member.return_type, method_obj.fail)
         IN  IF return_type = <<>> THEN TVoid ELSE return_type

\* jvm.py 294-335: _extract_method_parameters
ExtractMethodParameters(method_obj) ==
    IF method_obj.fail = "all"
    THEN <<>>
    ELSE [i \in 1..Len(method_obj.member.parameters) |->
            LET param_name == GetStringUtfChars(method_obj.member.parameters[i], method_obj.fail)
            IN  IF param_name # <<>> THEN param_name ELSE Object]

\* jvm.py 337-348: _extract_method_is_static
ExtractMethodIsStatic(method_obj) ==
    IF method_obj.fail = "all" THEN FALSE ELSE method_obj.member.is_static

\* jvm.py 350-380: _extract_method_info; its helpers raise nothing
ExtractMethodInfo(method_obj) ==
    JavaMethod(ExtractMethodName(method_obj), ExtractMethodParameters(method_obj),
               ExtractMethodReturnType(method_obj), ExtractMethodIsStatic(method_obj))

\* jvm.py 382-394: _extract_field_name
ExtractFieldName(field_obj) ==
    IF field_obj.fail \in {"getName", "all"}
    THEN UnknownField
    ELSE GetStringUtfChars(field_obj.member.name, field_obj.fail)

\* jvm.py 396-413: _extract_field_type
ExtractFieldType(field_obj) ==
    IF field_obj.fail = "all"
    THEN Object
    ELSE LET field_type == GetStringUtfChars(field_obj.member.type, field_obj.fail)
         IN  IF field_type = <<>> THEN Object ELSE field_type

\* jvm.py 415-426: _extract_field_is_static
ExtractFieldIsStatic(field_obj) ==
    IF field_obj.fail = "all" THEN FALSE ELSE field_obj.member.is_static

\* jvm.py 428-441: _extract_field_info
ExtractFieldInfo(field_obj) ==
    JavaField(ExtractFieldName(field_obj), ExtractFieldType(field_obj),
              ExtractFieldIsStatic(field_obj))

\* str.join with a separator
RECURSIVE JoinWith(_, _)
JoinWith(sep, parts) ==
    IF parts = <<>> THEN <<>>
    ELSE IF Len(parts) = 1 THEN Head(parts)
    ELSE Head(parts) \o sep \o JoinWith(sep, Tail(parts))

MethodSignatureNameOnly(method_info) == method_info.name

\* jvm.py 459-461: f"{method_info.name}({', '.join(method_info.parameters)})"
MethodSignature(method_info) ==
    method_info.name \o <<"(">> \o JoinWith(<<",", " ">>, method_info.parameters) \o <<")">>

\* jvm.py 511: field_info.name
FieldKey(field_info) == field_info.name

\* jvm.py 445-446, 494-495: the list built so far and the keys seen so far
NoMembers == [all |-> <<>>, keys |-> {}]

\* jvm.py 455-464 and 474-483, 504-513 and 523-530: the loop over one array from
\* its element i on; a raise of GetObjectArrayElement leaves the loop
RECURSIVE ExtractFrom(_, _, _, _)
ExtractFrom(kind, objs, i, acc) ==
    IF i > Len(objs) THEN acc
    ELSE IF objs[i].fail = "element" THEN acc
    ELSE IF objs[i].fail = "null" THEN ExtractFrom(kind, objs, i + 1, acc)
    ELSE LET info == IF kind = "methods" THEN ExtractMethodInfo(objs[i])
                     ELSE ExtractFieldInfo(objs[i])
             key == IF kind = "methods" THEN MethodSignature(info) ELSE FieldKey(info)
         IN  IF key \notin acc.keys
             THEN ExtractFrom(kind, objs, i + 1,
                              [all |-> Append(acc.all, info), keys |-> acc.keys \cup {key}])
             ELSE ExtractFrom(kind, objs, i + 1, acc)

\* jvm.py 449-466, 468-485: one try block; a raise of the reflection call
\* itself, or a null or empty array, adds nothing
ExtractBatch(kind, batch, acc) ==
    IF batch.ok /\ batch.objs # <<>> THEN ExtractFrom(kind, batch.objs, 1, acc) ELSE acc

\* jvm.py 443-490: _extract_all_methods
ExtractAllMethods(declared, public) ==
    ExtractBatch("methods", public, ExtractBatch("methods", declared, NoMembers)).all

\* jvm.py 492-531: _extract_all_fields
ExtractAllFields(declared, public) ==
    ExtractBatch("fields", public, ExtractBatch("fields", declared, NoMembers)).all

\* the members of the reflected class; two methods m() differ in return type
\* and modifier, as a method and the inherited one it overrides
NameM == <<"m">>
NameN == <<"n">>
MethodObjects ==
    { JavaMethod(NameM, <<>>, TVoid, FALSE), JavaMethod(NameM, <<>>, TString, TRUE),
      JavaMethod(NameM, <<TInt, TString>>, TVoid, FALSE), JavaMethod(NameN, <<>>, TVoid, FALSE) }
FieldObjects ==
    { JavaField(NameM, TInt, FALSE), JavaField(NameM, TString, TRUE),
      JavaField(NameN, TInt, FALSE) }

\* the static m is the member whose reading fails in every way
ReflectedMembers(pool) ==
    { Reflected(m, "none") : m \in pool }
        \cup { Reflected(m, f) : m \in { x \in pool : x.is_static }, f \in ReflectFails }

MaxReflected == 2

\* the arrays of one reflection call; a call that raised returns no array
Batches(pool) ==
    { Batch(TRUE, objs) : objs \in SeqsUpTo(ReflectedMembers(pool), MaxReflected) }
        \cup { Batch(FALSE, <<>>) }

ReflCall(op, declared, public, ret) ==
    [op |-> op, declared |-> declared, public |-> public, ret |-> ret]
NoReflCall == ReflCall("none", Batch(TRUE, <<>>), Batch(TRUE, <<>>), <<>>)

ExtractAllMethodsCall(declared, public) ==
    /\ refl_call.op = "none"
    /\ refl_call' = ReflCall("_extract_all_methods", declared, public,
                             ExtractAllMethods(declared, public))
    /\ UNCHANGED <<attr_call, conv_call, disc_call, lazy>>
    /\ UNCHANGED <<finderVars, jniVars, jvmVars>>

ExtractAllFieldsCall(declared, public) ==
    /\ refl_call.op = "none"
    /\ refl_call' = ReflCall("_extract_all_fields", declared, public,
                             ExtractAllFields(declared, public))
    /\ UNCHANGED <<attr_call, conv_call, disc_call, lazy>>
    /\ UNCHANGED <<finderVars, jniVars, jvmVars>>

NextExtract ==
    \/ \E declared, public \in Batches(MethodObjects) : ExtractAllMethodsCall(declared, public)
    \/ \E declared, public \in Batches(FieldObjects) : ExtractAllFieldsCall(declared, public)

-----------------------------------------------------------------------------
(* proxy.py: the lazily loaded fields of ClassProxy and ObjectProxy *)

\* a field that is None, or that holds v
None == [some |-> FALSE, v |-> NoInfo]
Some(v) == [some |-> TRUE, v |-> v]

IsNoneAlways(field) == TRUE

\* proxy.py 39, 45, 86: if self._jclass is None, if self._class_info is None
IsNone(field) == ~field.some

\* the classes behind the proxies: one with a static field y and a static
\* method x, one with an instance method x only
LazyClasses ==
    { JavaClass(<<JavaMethod("x", <<>>, TVoid, TRUE)>>, <<JavaField("y", TString, TRUE)>>),
      JavaClass(<<JavaMethod("x", <<>>, TVoid, FALSE)>>, <<>>) }

\* the number of attribute accesses made on one proxy
MaxUses == 3

\* a proxy on the class java: its fields _jclass and _class_info, the number of
\* _find_class, find_class and GetObjectClass calls it has made, and its last
\* attribute access: the item, what was loaded during it, the outcome
Proxy(kind, java, jclass, class_info, finds, infos, reflects, uses, item, loaded, res, err) ==
    [kind |-> kind, java |-> java, jclass |-> jclass, class_info |-> class_info,
     finds |-> finds, infos |-> infos, reflects |-> reflects, uses |-> uses,
     item |-> item, loaded |-> loaded, res |-> res, err |-> err]

NoProxy == Proxy("none", NoInfo, None, None, 0, 0, 0, 0, "", {}, NoRes, "")

\* proxy.py 31-35: ClassProxy.__init__; proxy.py 78-81: ObjectProxy.__init__
NewLazyProxy(kind, java) ==
    /\ lazy.kind = "none"
    /\ lazy' = [NoProxy EXCEPT !.kind = kind, !.java = java]
    /\ UNCHANGED <<attr_call, conv_call, disc_call, refl_call>>
    /\ UNCHANGED <<finderVars, jniVars, jvmVars>>

\* proxy.py 43-47: the property _info. find_class returns the descriptor or
\* raises JNIException
LoadInfo(p, info_ok) ==
    IF IsNone(p.class_info)
    THEN [p EXCEPT !.infos = @ + 1, !.loaded = @ \cup {"find_class"},
                   !.class_info = IF info_ok THEN Some(p.java) ELSE None,
                   !.err = IF info_ok THEN "" ELSE "JNIException"]
    ELSE p

\* proxy.py 37-41: the property _cls. _find_class returns a reference or raises
LoadCls(p, cls_ok) ==
    IF IsNone(p.jclass)
    THEN [p EXCEPT !.finds = @ + 1, !.loaded = @ \cup {"_find_class"},
                   !.jclass = IF cls_ok THEN Some(p.java) ELSE None,  \* the reference to the class
                   !.err = IF cls_ok THEN "" ELSE "JNIException"]
    ELSE p

\* the access starts: nothing loaded in it yet
Using(p, item) ==
    [p EXCEPT !.uses = @ + 1, !.item = item, !.loaded = {}, !.res = NoRes, !.err = ""]

\* proxy.py 49-69: ClassProxy.__getattr__
LazyClassGetattr(item, info_ok, cls_ok, field_ok) ==
    /\ lazy.kind = "ClassProxy" /\ lazy.uses < MaxUses
    /\ LET p1 == LoadInfo(Using(lazy, item), info_ok)
           info == p1.class_info.v
           is_field == \E i \in 1..Len(info.fields) : info.fields[i].name = item
           matches == Named(info.methods, item)
           p2 == LoadCls(p1, cls_ok)
       IN  \* an outcome is drawn only for a call that is made
           /\ ~IsNone(lazy.class_info) => info_ok
           /\ p1.err # "" \/ ~IsNone(lazy.jclass) \/ (~is_field /\ matches = <<>>) => cls_ok
           /\ p1.err # "" \/ ~is_field \/ ~cls_ok => field_ok
           /\ lazy' =
                IF p1.err # "" THEN p1
                ELSE IF is_field
                THEN IF p2.err # "" \/ ~field_ok
                     THEN [p2 EXCEPT !.err = "RuntimeError"]
                     ELSE [p2 EXCEPT !.res = Res("to_python", <<>>, item)]
                ELSE IF matches # <<>>
                THEN IF p2.err # "" THEN p2
                     ELSE [p2 EXCEPT !.res = Res("MethodProxy", matches, "")]
                ELSE [p1 EXCEPT !.err = "AttributeError"]
    /\ UNCHANGED <<attr_call, conv_call, disc_call, refl_call>>
    /\ UNCHANGED <<finderVars, jniVars, jvmVars>>

\* proxy.py 83-105: the property _info of ObjectProxy. GetObjectClass gives the
\* class, gives NULL or raises; without a class the descriptor is empty
ReflectRuntimeClass(p, outcome) ==
    IF IsNone(p.class_info)
    THEN [p EXCEPT !.reflects = @ + 1, !.loaded = @ \cup {"GetObjectClass"},
                   !.class_info = IF outcome = "ok" THEN Some(p.java) ELSE Some(NoInfo)]
    ELSE p

\* proxy.py 107-111: ObjectProxy.__getattr__
LazyObjectGetattr(item, outcome) ==
    /\ lazy.kind = "ObjectProxy" /\ lazy.uses < MaxUses
    /\ ~IsNone(lazy.class_info) => outcome = "ok"
    /\ LET p == ReflectRuntimeClass(Using(lazy, item), outcome)
           matches == Named(p.class_info.v.methods, item)
       IN  lazy' = IF matches # <<>>
                   THEN [p EXCEPT !.res = Res("InstanceMethodProxy", matches, "")]
                   ELSE [p EXCEPT !.err = "AttributeError"]
    /\ UNCHANGED <<attr_call, conv_call, disc_call, refl_call>>
    /\ UNCHANGED <<finderVars, jniVars, jvmVars>>

NextLazy ==
    \/ \E kind \in {"ClassProxy", "ObjectProxy"}, java \in LazyClasses : NewLazyProxy(kind, java)
    \/ \E item \in MemberNames, info_ok, cls_ok, field_ok \in BOOLEAN :
            LazyClassGetattr(item, info_ok, cls_ok, field_ok)
    \/ \E item \in MemberNames, outcome \in {"ok", "null", "exc"} :
            LazyObjectGetattr(item, outcome)

\* no proxy made, no conversion or discovery called yet
PxInit ==
    /\ attr_call = NoAttrCall
    /\ conv_call = NoConvCall
    /\ disc_call = NoDiscCall
    /\ refl_call = NoReflCall
    /\ lazy = NoProxy

-----------------------------------------------------------------------------
Init == FinderInit /\ JNIInit /\ JVMInit /\ PxInit

SpecFinder == Init /\ [][NextFinder]_vars

SpecJNI == Init /\ [][NextJNI]_vars

SpecJVM == Init /\ [][NextJVM]_vars

SpecProxy == Init /\ [][NextProxy]_vars

SpecFrames == Init /\ [][NextFrames]_vars

\* finder.py 26-31: a thread inside the with block runs on until it has left it
InsideLock(t) ==
    \/ GetJvmRecheck(t)
    \/ GetJvmStartOk(t)
    \/ GetJvmStartFails(t)
    \/ GetJvmRelease(t)
    \/ GetJvmUnwind(t)

SpecFinderFair ==
    Init /\ [][NextFinder]_vars /\ \A t \in FinderThreads : WF_vars(InsideLock(t))

SpecFindClass == Init /\ [][NextFindClass]_vars

SpecExtract == Init /\ [][NextExtract]_vars

SpecLazy == Init /\ [][NextLazy]_vars

SpecAttr == Init /\ [][NextAttr]_vars
SpecSig == Init /\ [][NextSig]_vars
SpecConv == Init /\ [][NextConv]_vars
SpecDiscover == Init /\ [][NextDiscover]_vars

-----------------------------------------------------------------------------
(* C7: every JNIHelper wrapper around a native call that can raise a       *)
(* native exception (class lookup, method-ID and field-ID resolution with  *)
(* the static variants, object/boolean/int/void method calls, static       *)
(* calls, object construction, string creation, static field reads) asks   *)
(* for a pending exception right after the native call and, when one is    *)
(* pending, describes it, clears it and raises; so no exception is pending *)
(* once such a wrapper has returned or raised.                             *)
RaisingWrappers ==
    { "FindClass", "GetMethodID", "GetStaticMethodID", "GetFieldID",
      "GetStaticFieldID", "CallObjectMethod", "CallBooleanMethod", "CallIntMethod",
      "CallVoidMethod", "CallStaticObjectMethodA", "CallStaticVoidMethodA",
      "NewObject", "NewStringUTF", "GetStaticObjectField" }

WrappersLeaveNoPendingException ==
    (jni_call.fn \in RaisingWrappers /\ jni_call.natives # <<>>) =>
        /\ ~exc_pending
        /\ Len(jni_call.natives) >= 2
        /\ jni_call.natives[2] = "ExceptionCheck"
        /\ (jni_call.raised = "RuntimeError") =
             (SubSeq(jni_call.natives, 2, Len(jni_call.natives))
                = <<"ExceptionCheck", "ExceptionDescribe", "ExceptionClear">>)

(* C8: on ARM64 macOS no native method invocation (instance object call,   *)
(* instance void call, static object call, static void call) is made with  *)
(* an argument array whose start address is not divisible by 8.            *)
ArrayInvocations ==
    { "CallObjectMethodA", "CallVoidMethodA", "CallStaticObjectMethodA",
      "CallStaticVoidMethodA" }

NoMisalignedInvocationOnArm64 ==
    (IsArm64Darwin(platform) /\ jni_call.invoked \in ArrayInvocations
        /\ ~jni_call.marsh.null)
    => jni_call.marsh.addr % 8 = 0

(* C9, as stated: _convert_args_to_jvalue_array returns (None, 0) for the  *)
(* empty tuple and otherwise an array of one cell per argument, in order,  *)
(* of the tuple's length; a boolean fills z, an integer in the signed      *)
(* 32-bit range fills i, any other integer fills j, a float fills d, and   *)
(* anything else, None included, fills l.                                  *)
Fits32(v) == v.hi \in -32768..32767

CellAsClaimed(v, c) ==
    IF v.k = "bool" THEN c = [member |-> "z", hi |-> 0, lo |-> v.lo]
    ELSE IF v.k = "int" /\ Fits32(v) THEN c = [member |-> "i", hi |-> v.hi, lo |-> v.lo]
    ELSE IF v.k = "int" THEN c = [member |-> "j", hi |-> v.hi, lo |-> v.lo]
    ELSE IF v.k = "float" THEN c = [member |-> "d", hi |-> v.hi, lo |-> v.lo]
    ELSE c.member = "l" /\ (v.k = "None" => c.hi = 0 /\ c.lo = 0)

ArrayAsClaimed(args, m) ==
    /\ m.raised = ""
    /\ ~m.null
    /\ m.len = Len(args)
    /\ Len(m.cells) = Len(args)
    /\ \A i \in 1..Len(args) : CellAsClaimed(args[i], m.cells[i])

Marshalable(v) == v.k \in {"bool", "int", "float", "None", "c_void_p"}

-----------------------------------------------------------------------------
(* C1: whatever the interleaving of threads calling _get_jvm on a finder   *)
(* that has no runtime yet, at most one JVMLoader.start call ever returns  *)
(* a runtime, and every call that returns hands back that one instance:    *)
(* never None, never a different instance from another caller's.           *)
GetJvmStartsOnce ==
    /\ starts <= 1
    /\ \A t \in FinderThreads :
         fpc[t] = "done" => /\ fret[t] # 0
                            /\ fret[t] = finder_jvm
                            /\ starts = 1
    /\ \A t, u \in FinderThreads :
         (fpc[t] = "done" /\ fpc[u] = "done") => fret[t] = fret[u]

\* three threads that all saw no runtime on the unlocked check have returned
GetJvmRaceWitness ==
    \A t \in FinderThreads : fpc[t] = "done" /\ fsaw_none[t]

-----------------------------------------------------------------------------
(* the class cache, shutdown and local frames *)

Done(w, op) == wk[w].op = op /\ wk[w].pc = "done"

\* what a repeated _find_class call must look like when it is answered from
\* the cache: the reference of the call before, no native call, no new global
\* reference, the cache size as it was
AnsweredAsBefore(r) ==
    /\ r.err = ""
    /\ r.ret.ref = r.prev.ref
    /\ ~r.called
    /\ r.how # "stored"
    /\ r.size = r.prev.size

\* C2 as stated: a thread that calls _find_class(name) twice in a row, with no
\* shutdown step between the two returns, gets the identical reference from
\* the second call, which makes no native call, creates no global reference
\* and finds the cache the size it was
FindClassTwiceSameReference ==
    \A w \in Workers :
        Done(w, "_find_class") /\ wk[w].again /\ wk[w].between # "shutdown"
            => AnsweredAsBefore(wk[w])

\* C2, amended: the same, when the first call returned the cache's reference
\* (a hit or a successful store) and no other thread stored into the cache
\* between the two returns
FindClassTwiceSameReferenceWhenCached ==
    \A w \in Workers :
        Done(w, "_find_class") /\ wk[w].again /\ wk[w].between = "quiet"
                /\ wk[w].prev.cached
            => AnsweredAsBefore(wk[w])

FindClassTwiceWitness ==
    \E w \in Workers :
        /\ Done(w, "_find_class") /\ wk[w].again /\ wk[w].between = "quiet"
        /\ wk[w].prev.cached /\ wk[w].how = "hit"
        /\ wk[w].ret.ref = class_cache[wk[w].name]

LateShutdownStep(w) ==
    wk[w].pc = "gs_check" /\ shutdown_complete /\ wk'[w] # wk[w]

LateShutdownIsNoOp(w) ==
    /\ wk'[w].pc = "done"
    /\ wk'[w].err = ""
    /\ ~wk'[w].called
    /\ wk'[w].depth = wk[w].depth
    /\ class_cache' = class_cache
    /\ <<next_ref, global_refs, released>>' = <<next_ref, global_refs, released>>
    /\ shutdown_complete'

\* C4 as stated: a graceful_shutdown call made once the flag is set returns in
\* one step without error and without a native call, leaves the cache, which
\* is empty, and the flag, which is true, as they are; the flag never goes back
\* to false
ShutdownIdempotentCacheEmpty ==
    [][/\ \A w \in Workers :
            LateShutdownStep(w) =>
                LateShutdownIsNoOp(w) /\ CachedNames(class_cache') = {}
       /\ shutdown_complete => shutdown_complete']_vars

\* C4, amended: the same without the cache being empty
ShutdownIdempotent ==
    [][/\ \A w \in Workers : LateShutdownStep(w) => LateShutdownIsNoOp(w)
       /\ shutdown_complete => shutdown_complete']_vars

ShutdownIdempotentWitness ==
    \E w \in Workers :
        Done(w, "graceful_shutdown") /\ wk[w].late /\ shutdown_complete /\ ~halted

FramesHeld(r) ==
    IF r.pc \in {"cs_convert", "cs_call", "cs_pop"}
    THEN (IF r.outer = "graceful_shutdown" THEN 2 ELSE 1)
    ELSE IF r.pc \in {"gs_findclass", "gs_getstatic", "gs_getmethod", "gs_halt", "gs_pop"}
            \/ (r.pc = "cs_push" /\ r.outer = "graceful_shutdown")
    THEN 1
    ELSE 0

\* C6: every thread holds exactly the frames it pushed with success and has
\* not yet popped: none before and after CallStaticObjectMethod and
\* graceful_shutdown, whatever the exit; the depth never goes below zero; and
\* CallStaticObjectMethod returns the reference PopLocalFrame made of the
\* native result, in the caller's frame
LocalFramesBalanced ==
    \A w \in Workers :
        /\ wk[w].depth = FramesHeld(wk[w])
        /\ Done(w, "CallStaticObjectMethod") /\ wk[w].err = ""
            => /\ wk[w].ret.ref = wk[w].native.ref
               /\ wk[w].native.ref # 0
                    => wk[w].native.frame = 1 /\ wk[w].ret.frame = 0

LocalFramesWitness ==
    \E w, v \in Workers :
        /\ Done(w, "CallStaticObjectMethod") /\ wk[w].ret.ref # 0 /\ wk[w].depth = 0
        /\ Done(v, "CallStaticObjectMethod") /\ wk[v].err = "TypeError"
        /\ wk[v].called /\ wk[v].depth = 0

\* C10: an attribute access on a PackageProxy raises nothing; it has made its
\* own find_class call for the slash-delimited name, and returns a ClassProxy
\* named P.name when that call returned, a PackageProxy named P.name when it
\* raised
PackageGetattrNeverRaises ==
    \A w \in Workers :
        Done(w, "__getattr__") =>
            LET r == wk[w]
                dotted == r.pkg \o <<".">> \o r.item
            IN  /\ r.err = ""
                /\ r.how # ""
                /\ Len(r.name) = Len(dotted)
                /\ \A i \in 1..Len(dotted) :
                        r.name[i] = (IF dotted[i] = "." THEN "/" ELSE dotted[i])
                /\ r.ret.name = dotted
                /\ r.ret.kind = (IF r.how = "raised" THEN "PackageProxy" ELSE "ClassProxy")

PackageGetattrWitness ==
    \E w, v \in Workers :
        /\ Done(w, "__getattr__") /\ wk[w].ret.kind = "ClassProxy"
        /\ wk[w].ret.name = <<"a", ".", "b">>
        /\ Done(v, "__getattr__") /\ wk[v].ret.kind = "PackageProxy"
        /\ wk[v].caught = "JNIException" /\ wk[v].ret.name = <<"a", ".", "b", ".", "b">>

-----------------------------------------------------------------------------
(* proxies *)

StaticFieldNamed(info, item) ==
    \E i \in 1..Len(info.fields) : info.fields[i].name = item /\ info.fields[i].is_static

\* C11 as stated: an access on a ClassProxy gives the converted value of the
\* static field of that name when there is one (and the runtime can read it),
\* else a MethodProxy bound to exactly the static methods of that name when
\* there is one, else AttributeError
ClassGetattrExposesOnlyStatics ==
    attr_call.op = "ClassProxy.__getattr__" =>
        LET c == attr_call
            statics == SelectSeq(c.info.methods,
                                 LAMBDA m : m.name = c.item /\ m.is_static)
        IN  IF StaticFieldNamed(c.info, c.item)
            THEN c.env = NoEnv => c.err = "" /\ c.res = Res("to_python", <<>>, c.item)
            ELSE IF statics # <<>>
            THEN c.err = "" /\ c.res = Res("MethodProxy", statics, "")
            ELSE c.err = "AttributeError"

\* C12 as stated: an access on an ObjectProxy gives an InstanceMethodProxy
\* bound to exactly the non-static methods of that name when there is one,
\* else AttributeError
ObjectGetattrExposesOnlyInstanceMethods ==
    attr_call.op = "ObjectProxy.__getattr__" =>
        LET c == attr_call
            instance == SelectSeq(c.info.methods,
                                  LAMBDA m : m.name = c.item /\ ~m.is_static)
        IN  IF instance # <<>>
            THEN c.err = "" /\ c.res = Res("InstanceMethodProxy", instance, "")
            ELSE c.err = "AttributeError"

\* the parameter counts of the overloads are pairwise distinct
DistinctArities(overloads) ==
    \A i, j \in 1..Len(overloads) :
        i # j => Len(overloads[i].parameters) # Len(overloads[j].parameters)

IsCall == attr_call.op \in {"MethodProxy.__call__", "InstanceMethodProxy.__call__"}

\* C13 as stated: a static or an instance call with N arguments (that were
\* converted) on overloads of pairwise distinct parameter counts selects the
\* overload with N parameters whatever the host types, and with no such
\* overload fails saying no matching method was found for N arguments,
\* without any native lookup or call
CallSelectsByArity ==
    IsCall /\ attr_call.env.conv = "ok" /\ DistinctArities(attr_call.overloads) =>
        LET c == attr_call
            N == Len(c.args)
            fit == SelectSeq(c.overloads, LAMBDA o : Len(o.parameters) = N)
        IN  IF fit # <<>>
            THEN c.sel = fit[1]
            ELSE c.msg = <<"No matching method found", N, "unknown">> /\ c.sel = NoMethod /\ c.log = <<>>

\* C14 as stated: a static or an instance call that the runtime answers issues
\* a void native call and gives None when the selected overload returns void,
\* and otherwise issues an object-returning native call and gives its result
\* converted by to_python
CallDispatchesOnReturnType ==
    IsCall /\ attr_call.sel # NoMethod /\ attr_call.env = NoEnv =>
        LET c == attr_call
            native == c.log[Len(c.log)]
        IN  IF c.sel.return_type = TVoid
            THEN native \in {"CallVoidMethod", "CallStaticVoidMethod"}
                 /\ c.res = Res("None", <<>>, "")
            ELSE native \in {"CallObjectMethod", "CallStaticObjectMethod"}
                 /\ c.res = Res("to_python", <<>>, native)

-----------------------------------------------------------------------------
(* signatures *)

\* the encoding of a type name the way the documentation states it
Encoding(t) ==
    CASE t = TInt -> <<"I">> [] t = TLong -> <<"J">> [] t = TFloat -> <<"F">>
      [] t = TDouble -> <<"D">> [] t = TBoolean -> <<"Z">> [] t = TVoid -> <<"V">>
      [] t = TByte -> <<"B">> [] t = TChar -> <<"C">> [] t = TShort -> <<"S">>
      [] OTHER -> <<"L">> \o [i \in 1..Len(t) |-> IF t[i] = "." THEN "/" ELSE t[i]] \o <<";">>

RECURSIVE Encodings(_)
Encodings(ts) == IF ts = <<>> THEN <<>> ELSE Encoding(Head(ts)) \o Encodings(Tail(ts))

SigExample == <<"(", "L", "j", "a", "v", "a", "/", "l", "a", "n", "g", "/", "S", "t", "r", "i", "n", "g", ";", "I", ")", "L", "j", "a", "v", "a", "/", "l", "a", "n", "g", "/", "O", "b", "j", "e", "c", "t", ";">>

\* C15: _build_sig(method) is '(' + the encodings of the parameter types in
\* declaration order + ')' + the encoding of the return type; no parameters and
\* void give '()V', and [java.lang.String, int] returning java.lang.Object give
\* '(Ljava/lang/String;I)Ljava/lang/Object;'
BuildSigEncodes ==
    conv_call.op = "_build_sig" =>
        LET m == conv_call.arg
        IN  /\ conv_call.ret = <<"(">> \o Encodings(m.parameters) \o <<")">>
                                      \o Encoding(m.return_type)
            /\ m.parameters = <<>> /\ m.return_type = TVoid
                    => conv_call.ret = <<"(", ")", "V">>
            /\ m.parameters = <<TString, TInt>> /\ m.return_type = TObject
                    => conv_call.ret = SigExample

\* _build_sig was applied to (java.lang.String, int) -> java.lang.Object
BuildSigWitness ==
    /\ conv_call.op = "_build_sig"
    /\ conv_call.arg.parameters = <<TString, TInt>>
    /\ conv_call.arg.return_type = TObject
    /\ conv_call.ret = SigExample

-----------------------------------------------------------------------------
(* value conversion *)

IsRoundTrip == conv_call.op = "to_python(to_java)" /\ conv_call.env = "ok"

\* C16 as stated: for every host string, every host boolean and every host
\* integer in the signed 32-bit range, to_python(to_java(v)) is v, of the same
\* host type
RoundTripLaw ==
    IsRoundTrip /\ (conv_call.arg.k \in {"str", "bool"}
                        \/ (conv_call.arg.k = "int" /\ Fits32(conv_call.arg)))
        => conv_call.err = "" /\ conv_call.ret = conv_call.arg

\* to_python was applied to a native handle whose class the runtime could read
OnReadableHandle ==
    /\ conv_call.op = "to_python"
    /\ conv_call.arg.k = "jobject"
    /\ conv_call.env \in {"ok", "no chars"}

StringTest == <<"GetObjectClass", "_find_class String", "IsInstanceOf String">>
BooleanTest == <<"_find_class Boolean", "IsInstanceOf Boolean">>
IntegerTest == <<"_find_class Integer", "IsInstanceOf Integer">>

PlainUnits(units) ==
    \A i \in 1..Len(units) : units[i] \in 1..65535 /\ ~IsSurrogate(units[i])

ToPythonPassesThrough ==
    conv_call.op = "to_python" =>
        LET c == conv_call
        IN  /\ c.arg \in {PyNone, PyInt(0, 0)} => c.ret = PyNone /\ c.log = <<>>
            /\ c.arg.k \in ContainerKinds => c.ret = c.arg /\ c.log = <<>> /\ c.err = ""

-----------------------------------------------------------------------------
(* class discovery *)

Discovered == disc_call.op = "discover_package_classes"

\* C19: discover_package_classes never raises whatever the native calls do; it
\* gives the empty list when the package is not among the loaded ones or no
\* candidate loads; every name it gives is package + '.' + candidate for a
\* candidate of the package's list, in list order and without duplicates
DiscoverNeverRaises ==
    Discovered =>
        LET c == disc_call
            cands == ClassPatterns(c.package_name)
            pos(n) == { i \in 1..Len(cands) : n = c.package_name \o <<".">> \o cands[i] }
        IN  /\ c.err = ""
            /\ c.env.verify # "found" => c.ret = <<>>
            /\ (\A i \in 1..MaxCandidates : c.env.probes[i] # "loads") => c.ret = <<>>
            /\ \A k \in 1..Len(c.ret) : pos(c.ret[k]) # {}
            /\ \A k, l \in 1..Len(c.ret) :
                    k < l => \E i \in pos(c.ret[k]), j \in pos(c.ret[l]) : i < j
            /\ \A k, l \in 1..Len(c.ret) : k # l => c.ret[k] # c.ret[l]

\* a discovery in java.util where the first probe raised, the second gave null
\* and the third loaded
DiscoverWitness ==
    /\ Discovered
    /\ disc_call.package_name = JavaUtil
    /\ disc_call.env = DiscEnv("found", <<"raises", "null", "loads">>)
    /\ disc_call.ret = << JavaUtil \o <<".">> \o ClassPatterns(JavaUtil)[3] >>

-----------------------------------------------------------------------------
(* the release of the cached references at shutdown *)

\* the references the cache held when the shutdown call of r began
SnapRefs(r) == { r.snap[n] : n \in CachedNames(r.snap) }

\* the call of r called DeleteGlobalRef once on each of them and on nothing else
ReleasedEach(r) ==
    /\ { r.dels[i] : i \in 1..Len(r.dels) } = SnapRefs(r)
    /\ Len(r.dels) = Cardinality(CachedNames(r.snap))

\* the shutdown call of w has finished with the cache: it is about to start its
\* halt sequence, or its loop over the cache has raised
PastRelease(w) ==
    /\ wk[w].op = "graceful_shutdown"
    /\ wk[w].pc \in {"gs_push", "gs_except"}

\* a step of the halt sequence of w
HaltSequenceStep(w) ==
    /\ wk[w].op = "graceful_shutdown"
    /\ wk[w].pc \in {"gs_push", "gs_findclass", "gs_getstatic", "gs_getmethod", "gs_halt",
                     "gs_pop"}
    /\ wk'[w].pc # wk[w].pc \/ halted' # halted

-----------------------------------------------------------------------------
(* a failed promotion to a global reference *)

\* the step in which NewGlobalRef gives NULL to the _find_class call of w
PromotionFails(w) ==
    /\ wk[w].op = "_find_class" /\ wk[w].pc = "fc_promote"
    /\ wk'[w].pc = "done"

PromotionFailureIsNotFatal ==
    \A w \in Workers :
        PromotionFails(w) =>
            /\ wk'[w].err = ""
            /\ wk'[w].ret = RefResult(wk[w].jclass)
            /\ wk[w].jclass \in 1..MaxRefs
            /\ class_cache' = class_cache

\* the _find_class call of w has returned, and the call of w before it was for
\* the same name and returned the local reference
AfterLocalReturn(w) ==
    Done(w, "_find_class") /\ wk[w].again /\ ~wk[w].prev.cached

-----------------------------------------------------------------------------
(* concurrent _find_class calls *)

\* a reference that was created and has not been released
ValidRef(ref) ==
    /\ \/ ref \in 1..(next_ref - 1)
       \/ ref \in global_refs
    /\ ref \notin released

\* the _find_class call of w has returned a reference for the name n
Returned(w, n) == Done(w, "_find_class") /\ wk[w].name = n /\ wk[w].err = ""

\* C22: threads that call _find_class concurrently only repeat work: a caller
\* fails only when its own native lookup failed, every reference returned is
\* valid, and the cache holds for a name nothing or one created global
\* reference, which it holds as soon as one caller has stored or read it
ConcurrentFindClassOnlyRepeatsWork ==
    /\ \A w \in Workers :
        Done(w, "_find_class") =>
            /\ wk[w].err # "" => wk[w].lookup \in {"null", "exc"}
            /\ wk[w].err = "" => ValidRef(wk[w].ret.ref)
    /\ \A n \in ClassNames :
        /\ class_cache[n] # 0 => class_cache[n] \in global_refs /\ ValidRef(class_cache[n])
        /\ (\E w \in Workers : Returned(w, n) /\ wk[w].how \in {"stored", "hit"})
                => class_cache[n] # 0
        /\ (\A w \in Workers : Returned(w, n) /\ wk[w].how = "stored")
                => \E w \in Workers : class_cache[n] = wk[w].ret.ref

\* both threads looked the same uncached name up and each stored its own
\* global reference; the cache holds one of the two
ConcurrentFindClassWitness ==
    \E n \in ClassNames :
        /\ \A w \in Workers : Returned(w, n) /\ wk[w].how = "stored"
        /\ wk["w1"].ret.ref # wk["w2"].ret.ref
        /\ class_cache[n] \in { wk[w].ret.ref : w \in Workers }

-----------------------------------------------------------------------------
(* the member lists of a reflected class *)

IsExtract == refl_call.op \in {"_extract_all_methods", "_extract_all_fields"}

\* the key of a descriptor: name and parameter types of a method, name of a field
MemberKey(info) ==
    IF refl_call.op = "_extract_all_methods" THEN <<info.name, info.parameters>>
    ELSE <<info.name>>

IsReadable(obj) == obj.fail # "null"

\* the descriptors of the members one reflection call delivered, in its order
Group(batch) ==
    LET objs == SelectSeq(batch.objs, IsReadable)
    IN  [i \in 1..Len(objs) |->
            IF refl_call.op = "_extract_all_methods" THEN ExtractMethodInfo(objs[i])
            ELSE ExtractFieldInfo(objs[i])]

GroupKeys(group) == { MemberKey(group[i]) : i \in 1..Len(group) }

\* no element of the two arrays failed to be fetched
FetchedAll ==
    \A batch \in {refl_call.declared, refl_call.public} :
        \A i \in 1..Len(batch.objs) : batch.objs[i].fail # "element"

RECURSIVE IsSubSeq(_, _)
IsSubSeq(a, b) ==
    IF a = <<>> THEN TRUE
    ELSE IF b = <<>> THEN FALSE
    ELSE IF Head(a) = Head(b) THEN IsSubSeq(Tail(a), Tail(b))
    ELSE IsSubSeq(a, Tail(b))

\* the first descriptor of the group that has the key
FirstWithKey(group, key) ==
    group[CHOOSE i \in 1..Len(group) :
            /\ MemberKey(group[i]) = key
            /\ \A j \in 1..(i - 1) : MemberKey(group[j]) # key]

FailedMember(obj) == obj.fail \in {"getName", "chars", "all"}

\* the placeholder descriptor: unknown name, not static, a field of type Object
IsPlaceholder(info) ==
    /\ ~info.is_static
    /\ IF refl_call.op = "_extract_all_methods" THEN info.name = UnknownMethod
       ELSE info.name = UnknownField /\ info.type = Object

\* C24: when every element of the two arrays was fetched, a member whose
\* reading failed is in the list as a placeholder descriptor, and every member
\* that was read without failure is in the list under its key
FailedMemberBecomesPlaceholder ==
    IsExtract /\ FetchedAll =>
        \A batch \in {refl_call.declared, refl_call.public} :
            \A i \in 1..Len(batch.objs) :
                LET obj == batch.objs[i]
                    ret == refl_call.ret
                IN  /\ FailedMember(obj) => \E j \in 1..Len(ret) : IsPlaceholder(ret[j])
                    /\ obj.fail = "none" =>
                            \E j \in 1..Len(ret) : MemberKey(ret[j]) = MemberKey(obj.member)

-----------------------------------------------------------------------------
(* errors of proxied method calls *)

IsStaticCall == attr_call.op = "MethodProxy.__call__"
IsInstanceCall == attr_call.op = "InstanceMethodProxy.__call__"

\* something went wrong in the call: a conversion, the selection, the method-ID
\* resolution or the native invocation
CallFailed ==
    LET c == attr_call
    IN  \/ c.env # NoEnv
        \/ c.sel = NoMethod

\* the error names the method of the chosen overload, or 'unknown'
NamesTheMethod ==
    LET c == attr_call
    IN  c.msg[3] = IF c.sel = NoMethod THEN "unknown" ELSE c.sel.name

-----------------------------------------------------------------------------
(* overload selection of a static call *)

\* isinstance(arg, int), isinstance(arg, str) on the host argument
IsHostInteger(arg) == arg \in {"int", "bool"}
IsHostString(arg) == arg = "str"

\* the overload qualifies for the arguments
Qualifies(overload, args) ==
    /\ Len(overload.parameters) = Len(args)
    /\ \A i \in 1..Len(args) :
        /\ overload.parameters[i] = TInt => IsHostInteger(args[i])
        /\ overload.parameters[i] = TString => IsHostString(args[i])

-----------------------------------------------------------------------------
(* lazy loading in the proxies *)

\* a proxy that was made and not used yet has looked nothing up; an
\* ObjectProxy that was used has reflected exactly once and holds a descriptor
LoadedOnFirstUse ==
    /\ lazy.kind # "none" /\ lazy.uses = 0 =>
            /\ lazy.finds = 0 /\ lazy.infos = 0 /\ lazy.reflects = 0
            /\ ~lazy.jclass.some /\ ~lazy.class_info.some
    /\ lazy.kind = "ClassProxy" /\ lazy.uses >= 1 => lazy.infos >= 1
    /\ lazy.kind = "ClassProxy" /\ lazy.res.kind \in {"MethodProxy", "to_python"} =>
            lazy.jclass.some /\ lazy.class_info.some
    /\ lazy.kind = "ObjectProxy" /\ lazy.uses >= 1 =>
            lazy.reflects = 1 /\ lazy.class_info.some

\* an access on a proxy that holds a loaded field does not load it again; an
\* access on an ObjectProxy whose reflection failed is an AttributeError
LoadedAtMostOnce ==
    lazy.kind # "none" /\ lazy'.uses = lazy.uses + 1 =>
        /\ lazy.class_info.some =>
                /\ lazy'.infos = lazy.infos /\ lazy'.reflects = lazy.reflects
                /\ lazy'.class_info = lazy.class_info
                /\ lazy'.loaded \cap {"find_class", "GetObjectClass"} = {}
        /\ lazy.jclass.some =>
                /\ lazy'.finds = lazy.finds /\ lazy'.jclass = lazy.jclass
                /\ "_find_class" \notin lazy'.loaded
        /\ lazy.kind = "ClassProxy" /\ ~lazy.class_info.some =>
                lazy'.infos = lazy.infos + 1
        /\ lazy.kind = "ObjectProxy" /\ lazy.class_info = Some(NoInfo) =>
                lazy'.err = "AttributeError"

\* C27: the proxies load lazily and at most once: nothing is looked up at
\* construction; a ClassProxy resolves its descriptor and its class reference
\* on first use and never again after a success; an ObjectProxy reflects on
\* its first attribute access only, a failed reflection leaving an empty
\* descriptor with which every later access is an AttributeError
ProxiesLoadLazilyOnce == []LoadedOnFirstUse /\ [][LoadedAtMostOnce]_vars

\* a ClassProxy used three times has called find_class and _find_class once each
ProxiesLoadWitness ==
    /\ lazy.kind = "ClassProxy"
    /\ lazy.uses = MaxUses
    /\ lazy.infos = 1 /\ lazy.finds = 1
    /\ lazy.loaded = {}
    /\ lazy.res.kind = "MethodProxy"

-----------------------------------------------------------------------------
(* to_python on an object of another class *)

\* to_python was applied to a handle whose class was read and is none of
\* String, Boolean and Integer
OnOtherObject ==
    /\ OnReadableHandle
    /\ conv_call.arg.cls \notin {"String", "Boolean", "Integer"}

\* none of the value extraction calls was made
NoExtraction ==
    \A i \in 1..Len(conv_call.log) :
        conv_call.log[i] \notin {"GetStringUTFChars", "CallBooleanMethod", "CallIntMethod"}

-----------------------------------------------------------------------------
(* released class references *)

\* the step in which the _find_class call of w returns a reference
FindClassReturns(w) ==
    /\ wk[w].op = "_find_class" /\ wk[w].pc # "done"
    /\ wk'[w].pc = "done" /\ wk'[w].err = ""

\* C29: _find_class never returns a reference on which graceful_shutdown has
\* called DeleteGlobalRef
NoReferenceReturnedAfterRelease ==
    [][\A w \in Workers : FindClassReturns(w) => wk'[w].ret.ref \notin released']_vars

-----------------------------------------------------------------------------
(* a failed start of the runtime *)

\* a caller whose start failed got the error and no instance and does not
\* hold the lock; the lock is held only inside the with block; an instance
\* given to a caller is one a successful start made
FailedStartLeavesNothing ==
    /\ \A t \in FinderThreads :
        /\ fpc[t] = "raised" => fret[t] = 0 /\ jvm_lock # t
        /\ jvm_lock = t <=> fpc[t] \in {"recheck", "start", "release", "unwind"}
        /\ fpc[t] = "unwind" => finder_jvm = 0
        /\ fpc[t] = "done" => fret[t] \in 1..starts
    /\ finder_jvm \in 0..starts

\* the failing start assigns nothing, and the error leaves the call; a call
\* that finds no instance goes on to the lock and, under it, to start
FailedStartStep ==
    \A t \in FinderThreads :
        /\ fpc[t] = "start" /\ fpc'[t] = "unwind" =>
                finder_jvm' = 0 /\ starts' = starts
        /\ fpc[t] = "unwind" /\ fpc'[t] # "unwind" =>
                fpc'[t] = "raised" /\ jvm_lock' = 0 /\ finder_jvm' = 0
        /\ fpc[t] = "check" /\ fpc'[t] # "check" /\ finder_jvm = 0 => fpc'[t] = "acquire"
        /\ fpc[t] = "recheck" /\ fpc'[t] # "recheck" /\ finder_jvm = 0 => fpc'[t] = "start"

\* C30: a start that fails inside _get_jvm raises to its caller, leaves the
\* finder without instance and the lock free, so that a later call starts
\* again; the lock is never held forever and no caller gets an instance from
\* a failed start
FailedStartIsRetried ==
    /\ []FailedStartLeavesNothing
    /\ [][FailedStartStep]_vars
    /\ \A t \in FinderThreads : (jvm_lock = t) ~> (jvm_lock = 0)

\* one caller's start failed; a later start succeeded and another caller
\* has the instance
FailedStartWitness ==
    \E t, u \in FinderThreads :
        /\ fpc[t] = "raised" /\ fret[t] = 0
        /\ fpc[u] = "done" /\ fret[u] = finder_jvm /\ finder_jvm # 0
        /\ jvm_lock = 0

====
